---- MODULE Spec2Model ----
(***************************************************************************)
(* Model of the playlist-generation pipeline of plex-daily-drive:          *)
(* generator.py (_do_generate, _interleave, _cleanup_old_playlists),       *)
(* plex_client.py (update_or_create_playlist, create_playlist,             *)
(* _apply_playlist_metadata) and the two entry points that start a run     *)
(* (scheduler._run_generation, app.api_generate); of the scheduler's job    *)
(* store (scheduler._update_jobs, get_next_runs), the connection caches of *)
(* plex_client.py, the track selectors, podcasts.refresh_podcasts and the  *)
(* podcast tables of database.py.                                          *)
(***************************************************************************)
EXTENDS Integers, Sequences, FiniteSets

(***************************************************************************)
(* Bounds of the model.                                                    *)
(***************************************************************************)
MaxMusic == 4
MaxEpisodes == 3
MaxEpisodeId == 2
MaxMusicCount == 10
RatioSlack == 10
MaxLibs == 3
MaxDay == 1
MaxKeepDays == 1
MaxRuns == 2
MaxScanPlaylists == 3
MaxProfiles == 2
MaxSubscriptions == 3
MaxPodcastCount == 2
MaxSchedules == 2
MaxReschedules == 1
MaxCredential == 1
MaxFeeds == 2
MaxFeedEpisodes == 2
MaxSelLibs == 2
MaxLibTracks == 1
MaxSelCount == 1

VARIABLES
    \* _interleave(music_tracks, podcast_episodes): arguments and return value
    il_music,       \* the caller's music_tracks list (shuffled in place)
    il_episodes,    \* podcast_episodes
    il_input,       \* music_tracks as it was passed in
    il_result,      \* the returned list
    il_done,        \* the call has returned
    \* the count computation at the head of _do_generate
    music_count,     \* configured music_count
    discovery_ratio, \* configured discovery_ratio, before the clamp
    num_libs,        \* len(music_libraries)
    discovery_count,
    favorites_count,
    fav_requests,   \* count passed to get_favorite_tracks, per library in order
    disc_requests,  \* count passed to get_discovery_tracks, per library in order
    cnt_done,
    \* the media server, the clock and the history table
    today,          \* the calendar day datetime.now() falls on
    playlists,      \* the playlists the server holds: id, title, items, poster, summary
    next_id,        \* the id the server gives the next playlist it creates
    history,        \* the rows of the history table, oldest first
    \* the threads that run a generation or call the publisher
    pc,             \* where each thread stands
    run,            \* each thread's local variables
    runs_started,   \* number of generation runs started so far
    \* the triggers of a generation: scheduler._run_generation, app.api_generate
    users,          \* the rows of the users table, in db.get_users() order
    settings,       \* the global settings: enabled, music_libraries
    flow,           \* the local state of the trigger being handled
    cycles,         \* the generation runs made so far: for whom, and how each ended
    \* _get_todays_podcast_tracks(max_count, user_podcasts): arguments, calls, result
    ep_max_count,
    ep_user_podcasts, \* {} for None, else the set holding the user's list
    ep_podcasts,    \* the rows of the podcasts table, in db.get_podcasts() order
    ep_calls,       \* the feed and media-server calls made, in order
    ep_result,
    ep_done,
    \* the scheduler's job store and the schedule setting
    schedules_raw,  \* the "schedules" setting
    jobs,           \* the jobs the scheduler holds
    sched_status,   \* "stopped", or how the last _update_jobs call ended
    \* scheduler.get_next_runs and get_next_run, as app.api_status calls them
    nr_now,         \* {} before the call, else the set holding the time of the call
    nr_runs,        \* the list get_next_runs returned
    nr_next,        \* {} for None, else the set holding what get_next_run returned
    \* a call of scheduler.reschedule() taken one scheduler operation at a time
    upd,            \* where the call stands, its local variables
    \* plex_client's connection caches and what they are built from
    plex_setting,   \* the stored plex_url and plex_token settings, as one value
    profiles,       \* per profile id: whether the row exists, plex_token or plex_username
    server,         \* plex_client._server: {} for None, else the set holding the connection
    user_servers,   \* plex_client._user_servers: per profile id, {} when the id is no key
    conn_used,      \* the connection the last request obtained, {} when it obtained none
    \* the podcasts and user_podcasts tables
    db_podcasts,    \* the ids of the rows of podcasts
    db_next_podcast, \* the id AUTOINCREMENT gives the next podcast
    db_links,       \* the rows of user_podcasts
    db_foreign_keys, \* whether SQLite enforces foreign keys by default in this build
    \* podcasts.refresh_podcasts() as api_generate calls it
    rf_podcasts,    \* db.get_podcasts(): enabled flag and feed of each row
    rf_limit,       \* the podcast_max_episodes setting
    rf_total,       \* the value refresh_podcasts returned
    rf_written,     \* the number of files the call wrote to disk
    rf_stage,       \* "start", or what api_generate does after the call
    \* the track selection of _do_generate
    sel_libs,       \* per configured library: its tracks, played and unplayed
    sel_counts,     \* favorites_count and discovery_count
    sel_tracks,     \* music_tracks after the two loops
    sel_log,        \* the selector calls made, in order, and how each ended
    sel_raised,     \* an exception left the loops
    sel_done

ilVars == <<il_music, il_episodes, il_input, il_result, il_done>>
cntVars == <<music_count, discovery_ratio, num_libs, discovery_count,
             favorites_count, fav_requests, disc_requests, cnt_done>>
srvVars == <<today, playlists, next_id, history>>
runVars == <<srvVars, pc, run, runs_started>>
orchVars == <<users, settings, flow, cycles>>
epVars == <<ep_max_count, ep_user_podcasts, ep_podcasts, ep_calls, ep_result, ep_done>>
jobVars == <<schedules_raw, jobs, sched_status>>
restVars == <<orchVars, epVars, jobVars>>
qryVars == <<nr_now, nr_runs, nr_next>>
connVars == <<plex_setting, profiles, server, user_servers, conn_used>>
dbVars == <<db_podcasts, db_next_podcast, db_links, db_foreign_keys>>
dlVars == <<rf_podcasts, rf_limit, rf_total, rf_written, rf_stage>>
selVars == <<sel_libs, sel_counts, sel_tracks, sel_log, sel_raised, sel_done>>
extVars == <<qryVars, upd, connVars, dbVars, dlVars, selVars>>
vars == <<ilVars, cntVars, runVars, restVars, extVars>>

(***************************************************************************)
(* Helpers.                                                                *)
(***************************************************************************)
Min(a, b) == IF a < b THEN a ELSE b
Max(a, b) == IF a > b THEN a ELSE b

SeqsUpTo(S, n) == UNION {[1..k -> S] : k \in 0..n}

\* Python's s[lo:hi] on a list (0-based, half-open, clamped to the list).
Slice(s, lo, hi) == SubSeq(s, Min(lo, Len(s)) + 1, Min(hi, Len(s)))

\* number of positions of s holding x
Occurrences(s, x) == Cardinality({i \in 1..Len(s) : s[i] = x})

\* Playlist items are opaque handles of the media server: a kind and an id.
Tracks == {[kind |-> "track", id |-> k] : k \in 1..MaxMusic}
Episodes == {[kind |-> "episode", id |-> k] : k \in 1..MaxEpisodeId}

(***************************************************************************)
(* generator._interleave                                                   *)
(***************************************************************************)
\* random.shuffle(music_tracks): every permutation is a possible outcome.
ShuffleOutcomes(n) == {f \in [1..n -> 1..n] : \A i, j \in 1..n : f[i] = f[j] => i = j}
Shuffled(s, f) == [i \in 1..Len(s) |-> s[f[i]]]

block_size_NoFloor(m, e) == m \div (e + 1)
block_size(m, e) == Max(1, m \div (e + 1))

\* The for loop of lines 297-301 followed by the trailing extend of line 304.
RECURSIVE InterleaveLoop_NoTrailing(_, _, _, _, _)
InterleaveLoop_NoTrailing(music, episodes, i, music_idx, result) ==
    IF i > Len(episodes)
    THEN result
    ELSE LET end == Min(music_idx + block_size(Len(music), Len(episodes)), Len(music))
         IN InterleaveLoop_NoTrailing(music, episodes, i + 1, end,
                result \o Slice(music, music_idx, end) \o <<episodes[i]>>)

RECURSIVE InterleaveLoop(_, _, _, _, _)
InterleaveLoop(music, episodes, i, music_idx, result) ==
    IF i > Len(episodes)
    THEN result \o Slice(music, music_idx, Len(music))
    ELSE LET end == Min(music_idx + block_size(Len(music), Len(episodes)), Len(music))
         IN InterleaveLoop(music, episodes, i + 1, end,
                result \o Slice(music, music_idx, end) \o <<episodes[i]>>)

\* The list music_tracks holds when _interleave returns: shuffled in place
\* only when neither early return was taken.
MusicAfter(music, episodes, perm) ==
    IF episodes = <<>> \/ music = <<>> THEN music ELSE Shuffled(music, perm)

\* The value _interleave returns; perm is the outcome of random.shuffle.
Interleave_NoEarlyReturn(music, episodes, perm) ==
    InterleaveLoop(Shuffled(music, perm), episodes, 1, 0, <<>>)
Interleave(music, episodes, perm) ==
    IF episodes = <<>> THEN music
    ELSE IF music = <<>> THEN episodes
    ELSE InterleaveLoop(Shuffled(music, perm), episodes, 1, 0, <<>>)

\* The music lists passed in: m distinct tracks, for every m up to MaxMusic.
\* Their order on entry is immaterial, the shuffle yields every order.
FirstTracks(m) == [i \in 1..m |-> [kind |-> "track", id |-> i]]

InitInterleave ==
    /\ il_input \in {FirstTracks(m) : m \in 0..MaxMusic}
    /\ il_music = il_input
    /\ il_episodes \in SeqsUpTo(Episodes, MaxEpisodes)
    /\ il_result = <<>>
    /\ il_done = FALSE

IdleInterleave ==
    /\ il_input = <<>>
    /\ il_music = <<>>
    /\ il_episodes = <<>>
    /\ il_result = <<>>
    /\ il_done = FALSE

InterleaveCall ==
    /\ ~il_done
    /\ \E perm \in ShuffleOutcomes(Len(il_music)) :
        /\ il_result' = Interleave(il_music, il_episodes, perm)
        /\ il_music' = MusicAfter(il_music, il_episodes, perm)
    /\ il_done' = TRUE
    /\ UNCHANGED <<il_input, il_episodes, cntVars, extVars, runVars, restVars>>

(***************************************************************************)
(* generator._do_generate, lines 133-157: the favourite/discovery split    *)
(* and the per-library counts.                                             *)
(***************************************************************************)
\* Python's round() of num/den for den > 0: to nearest, ties to even.
Round(num, den) ==
    LET q == num \div den
        r == num % den
    IN IF 2 * r < den THEN q
       ELSE IF 2 * r > den THEN q + 1
       ELSE IF q % 2 = 0 THEN q ELSE q + 1

Clamp_Missing(ratio) == ratio
Clamp(ratio) == Max(0, Min(100, ratio))

DiscoveryCount(mc, ratio) == Round(mc * Clamp(ratio), 100)
FavoritesCount(mc, ratio) == mc - DiscoveryCount(mc, ratio)

\* The counts requested from the libraries, in iteration order (i is the
\* 0-based index of enumerate); no request at all when the count is 0.
PerLibRequests(count, n) ==
    IF count > 0
    THEN LET per_lib == Max(1, count \div n)
             remainder == count % n
         IN [k \in 1..n |-> per_lib + (IF k - 1 < remainder THEN 1 ELSE 0)]
    ELSE <<>>

InitCounts ==
    /\ music_count \in 0..MaxMusicCount
    /\ discovery_ratio \in (0 - RatioSlack)..(100 + RatioSlack)
    /\ num_libs \in 1..MaxLibs
    /\ discovery_count = 0
    /\ favorites_count = 0
    /\ fav_requests = <<>>
    /\ disc_requests = <<>>
    /\ cnt_done = FALSE

IdleCounts ==
    /\ music_count = 0
    /\ discovery_ratio = 0
    /\ num_libs = 1
    /\ discovery_count = 0
    /\ favorites_count = 0
    /\ fav_requests = <<>>
    /\ disc_requests = <<>>
    /\ cnt_done = FALSE

ComputeCounts ==
    /\ ~cnt_done
    /\ discovery_count' = DiscoveryCount(music_count, discovery_ratio)
    /\ favorites_count' = FavoritesCount(music_count, discovery_ratio)
    /\ fav_requests' = PerLibRequests(favorites_count', num_libs)
    /\ disc_requests' = PerLibRequests(discovery_count', num_libs)
    /\ cnt_done' = TRUE
    /\ UNCHANGED <<music_count, discovery_ratio, num_libs, ilVars, runVars, restVars, extVars>>



(***************************************************************************)
(* Playlist titles.  A title is a sequence of tokens: words, "(", ")",     *)
(* " - " and dates written in one of the two formats.  Formatting a date   *)
(* produces a date token of that format; parsing succeeds only on exactly  *)
(* one date token of the format asked for.                                 *)
(***************************************************************************)
Word(w) == [k |-> w, d |-> 0]
LP == [k |-> "(", d |-> 0]
RP == [k |-> ")", d |-> 0]
SEP == [k |-> " - ", d |-> 0]

\* datetime.strftime(fmt) of the given day, as the text of a title
Strftime(day, fmt) == <<[k |-> fmt, d |-> day]>>

\* datetime.strptime(text, fmt): the set holding the parsed day, empty when
\* strptime raises ValueError
Strptime(text, fmt) ==
    IF Len(text) = 1 /\ text[1].k = fmt THEN {text[1].d} ELSE {}

StartsWith(title, prefix) ==
    /\ Len(title) >= Len(prefix)
    /\ SubSeq(title, 1, Len(prefix)) = prefix
Contains(title, tok) == \E i \in 1..Len(title) : title[i] = tok
EndsWith(title, tok) == Len(title) > 0 /\ title[Len(title)] = tok

\* title.split(tok)[-1] for a title that contains tok
AfterLast(title, tok) ==
    LET last == CHOOSE i \in 1..Len(title) :
                    /\ title[i] = tok
                    /\ \A j \in (i + 1)..Len(title) : title[j] # tok
    IN SubSeq(title, last + 1, Len(title))

RECURSIVE RStrip(_, _)
RStrip(text, tok) ==
    IF Len(text) > 0 /\ text[Len(text)] = tok
    THEN RStrip(SubSeq(text, 1, Len(text) - 1), tok)
    ELSE text

\* f"{prefix} ({today})" with today = now.strftime("%d.%m.%Y")
PlaylistName(prefix, day) == prefix \o <<LP>> \o Strftime(day, "%d.%m.%Y") \o <<RP>>

DailyDrive == <<Word("Daily Drive")>>
DailyDriveKids == <<Word("Daily Drive"), Word("Kids")>>
Workout == <<Word("Workout")>>
Prefixes == {DailyDrive, DailyDriveKids}

(***************************************************************************)
(* generator._cleanup_old_playlists                                        *)
(***************************************************************************)
\* datetime.now(): the calendar day and the time of day, of which only
\* "exactly 00:00:00" or "later" matters; the time of day is an input of
\* every reading of the clock.
Now(day, late) == [day |-> day, late |-> late]

\* cutoff = datetime.now() - timedelta(days=keep_days)
Cutoff(t, keep_days) == [day |-> t.day - keep_days, late |-> t.late]

\* playlist_date < cutoff, playlist_date being midnight of the parsed day
IsBefore(day, cutoff) == day < cutoff.day \/ (day = cutoff.day /\ cutoff.late)

\* What the loop body of lines 316-335 does with one playlist:
\* "continue" (lines 317, 330), "ValueError" (strptime raised), "keep" or "delete".
CleanupDecision(title, prefix, cutoff) ==
    IF ~StartsWith(title, prefix) THEN "continue"
    ELSE LET parsed ==
                IF Contains(title, LP) /\ EndsWith(title, RP)
                THEN [ok |-> TRUE, date |-> Strptime(RStrip(AfterLast(title, LP), RP), "%d.%m.%Y")]
                ELSE IF Contains(title, SEP)
                THEN [ok |-> TRUE, date |-> Strptime(AfterLast(title, SEP), "%Y-%m-%d")]
                ELSE [ok |-> FALSE, date |-> {}]
         IN IF ~parsed.ok THEN "continue"
            ELSE IF parsed.date = {} THEN "ValueError"
            ELSE IF \E day \in parsed.date : IsBefore(day, cutoff) THEN "delete"
            ELSE "keep"

\* except ValueError: continue -- the scan goes on with the next playlist.
\* (i is the index of the playlist that raised, n the length of the listing.)
AfterValueError_LeavesLoop(i, n) == n + 1
AfterValueError(i, n) == i + 1

\* srv.playlists() lists the playlists in the order the server created them.
RECURSIVE SortedById(_)
SortedById(S) ==
    IF S = {} THEN <<>>
    ELSE LET first == CHOOSE x \in S : \A y \in S : x.id <= y.id
         IN <<first>> \o SortedById(S \ {first})

\* The for loop of lines 315-335 from index i on.  fault = "delete" makes
\* playlist.delete() raise, which ends the scan in the outer except.
RECURSIVE CleanupScan(_, _, _, _, _, _)
CleanupScan(listing, i, deleted, prefix, cutoff, fault) ==
    IF i > Len(listing) THEN [deleted |-> deleted, raised |-> FALSE]
    ELSE LET decision == CleanupDecision(listing[i].title, prefix, cutoff)
         IN IF decision = "delete"
            THEN IF fault = "delete"
                 THEN [deleted |-> deleted, raised |-> TRUE]
                 ELSE CleanupScan(listing, i + 1, deleted \cup {listing[i].id},
                                  prefix, cutoff, fault)
            ELSE IF decision = "ValueError"
            THEN CleanupScan(listing, AfterValueError(i, Len(listing)), deleted,
                             prefix, cutoff, fault)
            ELSE CleanupScan(listing, i + 1, deleted, prefix, cutoff, fault)

\* The whole call; fault = "list" makes get_server() or srv.playlists() raise.
CleanupOldPlaylists(pls, prefix, keep_days, t, fault) ==
    IF fault = "list" THEN [deleted |-> {}, raised |-> TRUE]
    ELSE CleanupScan(SortedById(pls), 1, {}, prefix, Cutoff(t, keep_days), fault)

Faults == {"none", "list", "delete"}

(***************************************************************************)
(* Threads.  "sched" is the scheduler's job thread (_run_generation),      *)
(* "http" a request thread (api_generate); "caller" calls                  *)
(* update_or_create_playlist twice in succession and "cleaner" calls       *)
(* _cleanup_old_playlists once.                                            *)
(***************************************************************************)
Runners == {"sched", "http"}
Threads == Runners \cup {"caller", "cleaner"}

\* What is known of the last call of _cleanup_old_playlists until the
\* publisher is called: the server fault it met, the time of day it read,
\* and whether its outer except clause was entered.
NoCleanup == [fault |-> "none", late |-> FALSE, raised |-> FALSE]

IdleRun ==
    [prefix |-> <<>>, keep_days |-> 0, poster |-> FALSE, description |-> FALSE,
     music |-> <<>>, episodes |-> <<>>, items |-> <<>>, name |-> <<>>,
     cleanup |-> NoCleanup,
     existing |-> {}, playlist |-> {}, result |-> {},
     core_raised |-> FALSE, meta_failed |-> FALSE,
     calls |-> 0, first |-> {}]

\* What the selection of a generation run can come back with.
SomeTrack == [kind |-> "track", id |-> 1]
SomeEpisode == [kind |-> "episode", id |-> 1]
MusicFound == {<<>>, <<SomeTrack>>}
EpisodesFound == {<<>>, <<SomeEpisode>>}
\* What the selection of a generation run comes back with: nothing, music
\* only, or music and an episode.
Found == {f \in [music : MusicFound, episodes : EpisodesFound] :
            f.episodes # <<>> => f.music # <<>>}

\* The profile a run is for: the scheduler's job always runs the global
\* settings (generate_playlist()), a request may name a user profile.
PrefixesOf(p) == IF p = "sched" THEN {DailyDrive} ELSE Prefixes
\* The settings of the two profiles: keep_days, whether poster_path is set
\* and the file exists, whether the description is not empty.
KeepDaysOf(prefix) == IF prefix = DailyDrive THEN 1 ELSE 0
HasPoster(prefix) == prefix = DailyDrive
HasDescription(prefix) == prefix = DailyDrive

SetRun(p, r) == run' = [run EXCEPT ![p] = r]
Goto(p, label) == pc' = [pc EXCEPT ![p] = label]

(***************************************************************************)
(* generator._do_generate, lines 163-178: selection, the early return when *)
(* nothing was found, the mix and the playlist name.                       *)
(***************************************************************************)
StartRun(p) ==
    /\ pc[p] \in {"idle", "done"}
    /\ runs_started < MaxRuns
    /\ runs_started' = runs_started + 1
    /\ \E prefix \in PrefixesOf(p), found \in Found :
        \E perm \in ShuffleOutcomes(Len(found.music)) :
          LET music == found.music
              episodes == found.episodes
          IN
            IF music = <<>> /\ episodes = <<>>
            THEN /\ SetRun(p, IdleRun)
                 /\ Goto(p, "done")
            ELSE /\ SetRun(p, [IdleRun EXCEPT
                        !.prefix = prefix, !.keep_days = KeepDaysOf(prefix),
                        !.poster = HasPoster(prefix),
                        !.description = HasDescription(prefix),
                        !.music = MusicAfter(music, episodes, perm),
                        !.episodes = episodes,
                        !.items = Interleave(music, episodes, perm),
                        !.name = PlaylistName(prefix, today)])
                 /\ Goto(p, "cleanup")
    /\ UNCHANGED <<srvVars, ilVars, cntVars, extVars, restVars>>

\* generator._do_generate line 178: _cleanup_old_playlists(prefix, keep_days)
Cleanup(p) ==
    /\ pc[p] = "cleanup"
    /\ \E fault \in Faults, late \in BOOLEAN :
        LET out == CleanupOldPlaylists(playlists, run[p].prefix, run[p].keep_days,
                                       Now(today, late), fault)
        IN /\ playlists' = {pl \in playlists : pl.id \notin out.deleted}
           /\ SetRun(p, [run[p] EXCEPT !.cleanup =
                    [fault |-> fault, late |-> late, raised |-> out.raised]])
    /\ Goto(p, "lookup")
    /\ UNCHANGED <<today, next_id, history, runs_started, ilVars, cntVars, extVars, restVars>>

(***************************************************************************)
(* plex_client.update_or_create_playlist                                   *)
(***************************************************************************)
\* _apply_playlist_metadata catches what uploadPoster and editSummary raise:
\* nothing propagates to the caller.
MetadataRaises_Uncaught(poster_failed, summary_failed) == poster_failed \/ summary_failed
MetadataRaises(poster_failed, summary_failed) == FALSE

\* The playlist after _apply_playlist_metadata(playlist, poster_path, description).
WithMetadata(pl, r, poster_ok, summary_ok) ==
    [pl EXCEPT !.poster = pl.poster \/ (r.poster /\ poster_ok),
               !.summary = pl.summary \/ (r.description /\ summary_ok)]

MetaFailed(r, poster_ok, summary_ok) ==
    (r.poster /\ ~poster_ok) \/ (r.description /\ ~summary_ok)

\* except Exception: return None
Fail(p) ==
    /\ SetRun(p, [run[p] EXCEPT !.playlist = {}, !.core_raised = TRUE,
                                !.cleanup = NoCleanup])
    /\ Goto(p, "returned")

\* lines 311-318: srv.playlists() and the search for the exact title
FirstMatch_Ignored(pls, name) == {}
FirstMatch(pls, name) ==
    LET matches == {pl \in pls : pl.title = name}
    IN IF matches = {} THEN {}
       ELSE {(CHOOSE x \in matches : \A y \in matches : x.id <= y.id).id}

Lookup(p) ==
    /\ pc[p] = "lookup"
    /\ \E ok \in BOOLEAN :
        IF ~ok
        THEN Fail(p)
        ELSE LET existing == FirstMatch(playlists, run[p].name)
             IN /\ SetRun(p, [run[p] EXCEPT !.existing = existing,
                                            !.cleanup = NoCleanup])
                /\ Goto(p, IF existing = {} THEN "create" ELSE "clear")
    /\ UNCHANGED <<srvVars, runs_started, ilVars, cntVars, extVars, restVars>>

\* lines 320-322: existing.items() and existing.removeItems(current_items)
Clear(p) ==
    /\ pc[p] = "clear"
    /\ \E ok \in BOOLEAN :
        IF ~ok \/ ~(\E pl \in playlists : pl.id \in run[p].existing)
        THEN Fail(p) /\ UNCHANGED playlists
        ELSE /\ playlists' = {IF pl.id \in run[p].existing
                              THEN [pl EXCEPT !.items = <<>>] ELSE pl : pl \in playlists}
             /\ Goto(p, "add")
             /\ UNCHANGED run
    /\ UNCHANGED <<today, next_id, history, runs_started, ilVars, cntVars, extVars, restVars>>

\* lines 324-328: existing.addItems(items), the metadata, return existing
Add(p) ==
    /\ pc[p] = "add"
    /\ \E ok, poster_ok, summary_ok \in BOOLEAN :
        IF ~ok \/ ~(\E pl \in playlists : pl.id \in run[p].existing)
        THEN Fail(p) /\ UNCHANGED playlists
        ELSE /\ playlists' =
                    {IF pl.id \in run[p].existing
                     THEN WithMetadata([pl EXCEPT !.items = pl.items \o run[p].items],
                                       run[p], poster_ok, summary_ok)
                     ELSE pl : pl \in playlists}
             /\ SetRun(p, [run[p] EXCEPT
                    !.meta_failed = MetaFailed(run[p], poster_ok, summary_ok),
                    !.playlist = IF MetadataRaises(run[p].poster /\ ~poster_ok,
                                                   run[p].description /\ ~summary_ok)
                                 THEN {} ELSE run[p].existing])
             /\ Goto(p, "returned")
    /\ UNCHANGED <<today, next_id, history, runs_started, ilVars, cntVars, extVars, restVars>>

\* line 331 and create_playlist (lines 296-305)
Create(p) ==
    /\ pc[p] = "create"
    /\ \E ok, poster_ok, summary_ok \in BOOLEAN :
        IF ~ok
        THEN Fail(p) /\ UNCHANGED <<playlists, next_id>>
        ELSE /\ playlists' = playlists \cup
                    {WithMetadata([id |-> next_id, title |-> run[p].name,
                                   items |-> run[p].items,
                                   poster |-> FALSE, summary |-> FALSE],
                                  run[p], poster_ok, summary_ok)}
             /\ next_id' = next_id + 1
             /\ SetRun(p, [run[p] EXCEPT
                    !.meta_failed = MetaFailed(run[p], poster_ok, summary_ok),
                    !.playlist = IF MetadataRaises(run[p].poster /\ ~poster_ok,
                                                   run[p].description /\ ~summary_ok)
                                 THEN {} ELSE {next_id}])
             /\ Goto(p, "returned")
    /\ UNCHANGED <<today, history, runs_started, ilVars, cntVars, extVars, restVars>>

(***************************************************************************)
(* generator._do_generate, lines 189-214: the history row and the result   *)
(***************************************************************************)
HistoryRow(r) ==
    [name |-> r.name, total |-> Len(r.items),
     podcasts |-> Len(r.episodes), music |-> Len(r.music)]

\* if playlist: db.add_history(...)
RecordsHistory_Always(playlist) == TRUE
RecordsHistory(playlist) == playlist # {}

Record(p) ==
    /\ pc[p] = "returned"
    /\ history' = IF RecordsHistory(run[p].playlist)
                  THEN Append(history, HistoryRow(run[p])) ELSE history
    /\ SetRun(p, [IdleRun EXCEPT
            !.core_raised = run[p].core_raised,
            !.result = IF run[p].playlist # {} THEN {HistoryRow(run[p])} ELSE {}])
    /\ Goto(p, "done")
    /\ UNCHANGED <<today, playlists, next_id, runs_started, ilVars, cntVars, extVars, restVars>>

\* Midnight passes.
Tick ==
    /\ today < MaxDay
    /\ today' = today + 1
    /\ UNCHANGED <<playlists, next_id, history, pc, run, runs_started, ilVars, cntVars, extVars, restVars>>

(***************************************************************************)
(* Two calls of update_or_create_playlist in succession, same arguments.   *)
(***************************************************************************)
PublishCall(p) ==
    /\ pc[p] = "idle"
    /\ \E prefix \in Prefixes, music \in MusicFound, episodes \in EpisodesFound :
        /\ music # <<>> \/ episodes # <<>>
        /\ SetRun(p, [IdleRun EXCEPT
                !.prefix = prefix,
                !.poster = HasPoster(prefix),
                !.description = HasDescription(prefix),
                !.items = music \o episodes,
                !.name = PlaylistName(prefix, today),
                !.calls = 1])
    /\ Goto(p, "lookup")
    /\ UNCHANGED <<srvVars, runs_started, ilVars, cntVars, extVars, restVars>>

PublishAgain(p) ==
    /\ pc[p] = "returned"
    /\ run[p].calls = 1
    /\ SetRun(p, [run[p] EXCEPT !.calls = 2, !.first = run[p].playlist,
                                !.existing = {}, !.playlist = {},
                                !.core_raised = FALSE, !.meta_failed = FALSE])
    /\ Goto(p, "lookup")
    /\ UNCHANGED <<srvVars, runs_started, ilVars, cntVars, extVars, restVars>>

(***************************************************************************)
(* One call of _cleanup_old_playlists on a server holding any playlists.   *)
(***************************************************************************)
CleanupCall(p) ==
    /\ pc[p] = "idle"
    /\ \E prefix \in Prefixes, keep_days \in 0..MaxKeepDays :
        SetRun(p, [IdleRun EXCEPT !.prefix = prefix, !.keep_days = keep_days])
    /\ Goto(p, "cleanup")
    /\ UNCHANGED <<srvVars, runs_started, ilVars, cntVars, extVars, restVars>>

(***************************************************************************)
(* The triggers of a generation: scheduler._run_generation (the job the    *)
(* scheduler fires) and app.api_generate (POST /api/generate), and the     *)
(* orchestration in generator.generate_playlist, generate_all_playlists,   *)
(* _generate_global and _generate_for_user.                                *)
(***************************************************************************)
\* users rows: id, enabled, and whether music_libraries is a non-empty list.
\* The global run is written as user 0.
UserRows(n) ==
    {[i \in 1..Len(f) |-> [id |-> i, enabled |-> f[i].enabled, libs |-> f[i].libs]] :
        f \in SeqsUpTo([enabled : BOOLEAN, libs : BOOLEAN], n)}

\* playlist_prefix of the global settings and of each user
PrefixOfUser(id) ==
    IF id = 0 THEN DailyDrive ELSE IF id = 1 THEN DailyDriveKids ELSE Workout

IdleFlow ==
    [p |-> "none", stage |-> "idle", user_id |-> 0,
     downloaded |-> 0, refresh_raised |-> FALSE,
     scan_called |-> FALSE, scan_ok |-> FALSE, waited |-> FALSE,
     invoked |-> FALSE, fanout |-> FALSE, queue |-> <<>>,
     selected |-> FALSE, before |-> {},
     results |-> <<>>, returned |-> {}, raised |-> FALSE]

IdleOrch ==
    /\ users = <<>>
    /\ settings = [enabled |-> TRUE, libs |-> TRUE]
    /\ flow = IdleFlow
    /\ cycles = <<>>

\* The trigger fires: the scheduler runs its job, or a request arrives with
\* or without a user_id (which may name no row of the users table).
Fire(p) ==
    /\ flow.stage = "idle"
    /\ pc[p] = "idle"
    /\ \E user_id \in (IF p = "http" THEN 0..(Len(users) + 1) ELSE {0}) :
        flow' = [IdleFlow EXCEPT !.p = p, !.stage = "refresh", !.user_id = user_id]
    /\ UNCHANGED <<users, settings, cycles, runVars, ilVars, cntVars, extVars, epVars, jobVars>>

\* What refresh_podcasts() does: it raises, or returns total_downloaded.
RefreshOutcomes ==
    {[raised |-> TRUE, downloaded |-> 0],
     [raised |-> FALSE, downloaded |-> 0],
     [raised |-> FALSE, downloaded |-> 1]}

\* except Exception: logged, and the function goes on to the generation.
AfterRefreshError_Propagates == "done"
AfterRefreshError == "dispatch"

\* The step after refresh_podcasts(): _run_generation (scheduler.py 91-95)
\* drops the return value; api_generate (app.py 110-116) scans and sleeps
\* when it is positive.
AfterRefresh(p, out) ==
    IF out.raised THEN AfterRefreshError
    ELSE IF p = "http" /\ out.downloaded > 0 THEN "scan"
    ELSE "dispatch"

Refresh ==
    /\ flow.stage = "refresh"
    /\ \E out \in RefreshOutcomes :
        flow' = [flow EXCEPT !.stage = AfterRefresh(flow.p, out),
                             !.downloaded = out.downloaded,
                             !.refresh_raised = out.raised]
    /\ UNCHANGED <<users, settings, cycles, runVars, ilVars, cntVars, extVars, epVars, jobVars>>

\* plex_client.scan_all_music_libraries(): a failure is caught inside it.
Scan ==
    /\ flow.stage = "scan"
    /\ \E ok \in BOOLEAN :
        flow' = [flow EXCEPT !.stage = "wait", !.scan_called = TRUE, !.scan_ok = ok]
    /\ UNCHANGED <<users, settings, cycles, runVars, ilVars, cntVars, extVars, epVars, jobVars>>

\* time.sleep(30)
Wait ==
    /\ flow.stage = "wait"
    /\ flow' = [flow EXCEPT !.stage = "dispatch", !.waited = TRUE]
    /\ UNCHANGED <<users, settings, cycles, runVars, ilVars, cntVars, extVars, epVars, jobVars>>

\* enabled_users = [u for u in users if u["enabled"]], as their ids
EnabledUsers(us) ==
    LET en == SelectSeq(us, LAMBDA u : u.enabled)
    IN [i \in 1..Len(en) |-> en[i].id]

\* if not enabled_users: return generate_playlist()
FallsBackToGlobal_Never(enabled_users) == FALSE
FallsBackToGlobal(enabled_users) == enabled_users = <<>>

\* The runs the trigger asks for: _run_generation calls generate_playlist(),
\* api_generate calls generate_playlist(user_id) or generate_all_playlists().
RunsOf(p, user_id, us) ==
    IF p = "sched" THEN [fanout |-> FALSE, queue |-> <<0>>]
    ELSE IF user_id # 0 THEN [fanout |-> FALSE, queue |-> <<user_id>>]
    ELSE IF FallsBackToGlobal(EnabledUsers(us)) THEN [fanout |-> FALSE, queue |-> <<0>>]
    ELSE [fanout |-> TRUE, queue |-> EnabledUsers(us)]

Dispatch ==
    /\ flow.stage = "dispatch"
    /\ LET runs == RunsOf(flow.p, flow.user_id, users)
       IN flow' = [flow EXCEPT !.stage = IF runs.queue = <<>> THEN "done" ELSE "cycle",
                               !.invoked = TRUE,
                               !.fanout = runs.fanout, !.queue = runs.queue]
    /\ UNCHANGED <<users, settings, cycles, runVars, ilVars, cntVars, extVars, epVars, jobVars>>

\* The early returns of _generate_global (51-53), _generate_for_user (81-87)
\* and _do_generate (128-131).
NoLibrariesSkips_Missing(libs) == FALSE
NoLibrariesSkips(libs) == ~libs

Skips(who, us, st) ==
    IF who = 0
    THEN ~st.enabled \/ NoLibrariesSkips(st.libs)
    ELSE \/ who \notin 1..Len(us)
         \/ ~us[who].enabled
         \/ NoLibrariesSkips(us[who].libs)

\* except Exception in the loop of generate_all_playlists: the loop goes on
\* with the next user.
AfterCycleError_LeavesLoop(rest) == <<>>
AfterCycleError(rest) == rest

\* The trigger's state after the run for the head of the queue ended with
\* the given outcome and result ({} for None).
Conclude(f, outcome, result) ==
    LET rest == IF outcome = "raised" THEN AfterCycleError(Tail(f.queue))
                ELSE Tail(f.queue)
        results == IF result = {} THEN f.results
                   ELSE Append(f.results, CHOOSE r \in result : TRUE)
    IN IF outcome = "raised" /\ ~f.fanout
       THEN [f EXCEPT !.stage = "done", !.queue = <<>>, !.raised = TRUE]
       ELSE IF rest = <<>>
       THEN [f EXCEPT !.stage = "done", !.queue = <<>>, !.results = results,
                      !.returned = IF results = <<>> THEN {} ELSE {results}]
       ELSE [f EXCEPT !.stage = "cycle", !.queue = rest, !.results = results]

\* What is kept of a run: for whom it was, how it ended, whether it selected
\* tracks and episodes, and whether the playlists or the history table
\* differ from what they were when it began.
CycleRecord(who, outcome, selected, touched) ==
    [who |-> who, outcome |-> outcome, selected |-> selected, touched |-> touched]

\* One run, up to the call of _cleanup_old_playlists: the configuration is
\* read, the run is skipped, or tracks and episodes are selected and mixed.
\* The selection may raise (a feed or a database error).
BeginCycle ==
    /\ flow.stage = "cycle"
    /\ LET who == Head(flow.queue)
           p == flow.p
       IN \E raises \in BOOLEAN, found \in Found :
           \E perm \in ShuffleOutcomes(Len(found.music)) :
            IF Skips(who, users, settings)
            THEN /\ flow' = Conclude(flow, "skipped", {})
                 /\ cycles' = Append(cycles, CycleRecord(who, "skipped", FALSE, FALSE))
                 /\ UNCHANGED <<pc, run>>
            ELSE IF raises
            THEN /\ flow' = [Conclude(flow, "raised", {}) EXCEPT !.selected = TRUE]
                 /\ cycles' = Append(cycles, CycleRecord(who, "raised", TRUE, FALSE))
                 /\ UNCHANGED <<pc, run>>
            ELSE IF found.music = <<>> /\ found.episodes = <<>>
            THEN /\ flow' = [Conclude(flow, "nothing", {}) EXCEPT !.selected = TRUE]
                 /\ cycles' = Append(cycles, CycleRecord(who, "nothing", TRUE, FALSE))
                 /\ UNCHANGED <<pc, run>>
            ELSE /\ flow' = [flow EXCEPT !.stage = "core", !.selected = TRUE,
                                         !.before = {[playlists |-> playlists,
                                                      history |-> history]}]
                 /\ SetRun(p, [IdleRun EXCEPT
                        !.prefix = PrefixOfUser(who),
                        !.keep_days = KeepDaysOf(PrefixOfUser(who)),
                        !.poster = HasPoster(PrefixOfUser(who)),
                        !.description = HasDescription(PrefixOfUser(who)),
                        !.music = MusicAfter(found.music, found.episodes, perm),
                        !.episodes = found.episodes,
                        !.items = Interleave(found.music, found.episodes, perm),
                        !.name = PlaylistName(PrefixOfUser(who), today)])
                 /\ Goto(p, "cleanup")
                 /\ UNCHANGED cycles
    /\ UNCHANGED <<users, settings, srvVars, runs_started, ilVars, cntVars, extVars, epVars, jobVars>>

\* The run returns to generate_all_playlists or to the trigger.
EndCycle ==
    /\ flow.stage = "core"
    /\ pc[flow.p] = "done"
    /\ LET who == Head(flow.queue)
           outcome == IF run[flow.p].result # {} THEN "published" ELSE "failed"
           touched == flow.before # {[playlists |-> playlists, history |-> history]}
       IN /\ flow' = [Conclude(flow, outcome, run[flow.p].result) EXCEPT !.before = {}]
          /\ cycles' = Append(cycles, CycleRecord(who, outcome, TRUE, touched))
    /\ UNCHANGED <<users, settings, runVars, ilVars, cntVars, extVars, epVars, jobVars>>

(***************************************************************************)
(* generator._get_todays_podcast_tracks                                    *)
(***************************************************************************)
\* A subscription row: its id, the enabled flag, whether its feed holds an
\* entry published today (get_todays_episodes is not empty) and whether the
\* media server finds a track of that artist (find_tracks_by_artist).
PodcastRows(n) ==
    {[i \in 1..Len(f) |-> [id |-> i, enabled |-> f[i].enabled,
                           today |-> f[i].today, in_plex |-> f[i].in_plex]] :
        f \in SeqsUpTo([enabled : BOOLEAN, today : BOOLEAN, in_plex : BOOLEAN], n)}

\* tracks[0] of the search for the subscription's name
EpisodeOf(sub) == [kind |-> "episode", id |-> sub.id]

FeedCall(sub) == [kind |-> "feed", sub |-> sub.id]
PlexCall(sub) == [kind |-> "plex", sub |-> sub.id]

\* [p for p in ... if p["enabled"]]
EnabledOnly_All(rows) == rows
EnabledOnly(rows) == SelectSeq(rows, LAMBDA r : r.enabled)

\* get_subscribed_podcast_names(): the names of the subscribed podcasts,
\* read from the database.
SubscribedPodcastNames(podcasts) == [i \in 1..Len(podcasts) |-> podcasts[i].id]

\* lines 223-236: the list to check, or the empty list on an early return
PodcastsToCheck(user_podcasts, podcasts) ==
    IF user_podcasts # {}
    THEN EnabledOnly(CHOOSE l \in user_podcasts : TRUE)
    ELSE IF SubscribedPodcastNames(podcasts) = <<>> THEN <<>>
    ELSE EnabledOnly(podcasts)

\* The for loop of lines 240-272 from the i-th podcast on: the tracks found
\* and the calls made.  The length test of line 271 is reached only when the
\* feed had an entry today (line 245 continues before it).
RECURSIVE EpisodeScan(_, _, _, _, _)
EpisodeScan(subs, i, today_tracks, calls, max_count) ==
    IF i > Len(subs)
    THEN [tracks |-> today_tracks, calls |-> calls]
    ELSE LET sub == subs[i]
             fetched == Append(calls, FeedCall(sub))
         IN IF ~sub.today
            THEN EpisodeScan(subs, i + 1, today_tracks, fetched, max_count)
            ELSE LET searched == Append(fetched, PlexCall(sub))
                     found == IF sub.in_plex
                              THEN Append(today_tracks, EpisodeOf(sub))
                              ELSE today_tracks
                 IN IF Len(found) >= max_count
                    THEN [tracks |-> found, calls |-> searched]
                    ELSE EpisodeScan(subs, i + 1, found, searched, max_count)

GetTodaysPodcastTracks(max_count, user_podcasts, podcasts) ==
    EpisodeScan(PodcastsToCheck(user_podcasts, podcasts), 1, <<>>, <<>>, max_count)

InitEpisodes ==
    /\ ep_max_count \in 0..MaxPodcastCount
    /\ \E rows \in PodcastRows(MaxSubscriptions), user_mode \in BOOLEAN :
        /\ ep_user_podcasts = IF user_mode THEN {rows} ELSE {}
        /\ ep_podcasts = IF user_mode THEN <<>> ELSE rows
    /\ ep_calls = <<>>
    /\ ep_result = <<>>
    /\ ep_done = FALSE

EpisodesCall ==
    /\ ~ep_done
    /\ LET out == GetTodaysPodcastTracks(ep_max_count, ep_user_podcasts, ep_podcasts)
       IN /\ ep_result' = out.tracks
          /\ ep_calls' = out.calls
    /\ ep_done' = TRUE
    /\ UNCHANGED <<ep_max_count, ep_user_podcasts, ep_podcasts,
                   orchVars, jobVars, runVars, ilVars, cntVars, extVars>>

IdleEpisodes ==
    /\ ep_max_count = 0
    /\ ep_user_podcasts = {}
    /\ ep_podcasts = <<>>
    /\ ep_calls = <<>>
    /\ ep_result = <<>>
    /\ ep_done = FALSE

(***************************************************************************)
(* scheduler: _update_jobs, start_scheduler, reschedule, and the settings  *)
(* request that stores a new schedule (app.api_save_settings).             *)
(***************************************************************************)
\* A schedule entry: hour and minute, and whether int() accepts the values
\* stored (int() raises ValueError otherwise).
Entry(hour, minute) == [hour |-> hour, minute |-> minute, numeric |-> TRUE]
BadEntry == [hour |-> 0, minute |-> 0, numeric |-> FALSE]
Entries == {Entry(0, 5), Entry(6, 0), Entry(6, 30), BadEntry}

\* The "schedules" setting: text that json.loads parses to a list of
\* entries, or text it rejects.
Schedules(n) ==
    {[json |-> TRUE, entries |-> e] : e \in SeqsUpTo(Entries, n)}
        \cup {[json |-> FALSE, entries |-> <<>>]}

\* database.py line 92 and the fallback of scheduler.py line 52
DefaultSchedules == <<Entry(6, 0)>>

\* Job ids are strings, written as token sequences: f"{JOB_PREFIX}{i}" and
\* f"{PODCAST_JOB}_{i}".
Index(i) == [k |-> "index", d |-> i]
JOB_PREFIX == <<Word("daily_drive_")>>
PODCAST_JOB == <<Word("podcast_refresh")>>
GenJobId(i) == JOB_PREFIX \o <<Index(i)>>
RefreshJobId(i) == PODCAST_JOB \o <<Word("_"), Index(i)>>

\* line 45: job.id.startswith(JOB_PREFIX) or job.id == PODCAST_JOB
IsOwnedJob_ExactOnly(id) == id = JOB_PREFIX \/ id = PODCAST_JOB
IsOwnedJob(id) == StartsWith(id, JOB_PREFIX) \/ id = PODCAST_JOB

\* scheduler.add_job(func, trigger=CronTrigger(hour, minute), id=id,
\* replace_existing=True)
AddJob(js, id, func, hour, minute) ==
    {j \in js : j.id # id}
        \cup {[id |-> id, func |-> func, hour |-> hour, minute |-> minute]}

\* lines 73-77: 15 minutes before the entry
RefreshTime_NoDayWrap(hour, minute) ==
    IF minute - 15 < 0
    THEN [hour |-> hour - 1, minute |-> minute - 15 + 60]
    ELSE [hour |-> hour, minute |-> minute - 15]
RefreshTime(hour, minute) ==
    IF minute - 15 < 0
    THEN [hour |-> (hour - 1) % 24, minute |-> minute - 15 + 60]
    ELSE [hour |-> hour, minute |-> minute - 15]

\* The loop of lines 54-69 from entry i (0-based) on; int() may raise.
RECURSIVE AddGenerationJobs(_, _, _)
AddGenerationJobs(js, schedules, i) ==
    IF i >= Len(schedules) THEN [jobs |-> js, raised |-> FALSE]
    ELSE IF ~schedules[i + 1].numeric THEN [jobs |-> js, raised |-> TRUE]
    ELSE AddGenerationJobs(
            AddJob(js, GenJobId(i), "_run_generation",
                   schedules[i + 1].hour, schedules[i + 1].minute),
            schedules, i + 1)

\* The loop of lines 72-86 from entry i (0-based) on.
RECURSIVE AddRefreshJobs(_, _, _)
AddRefreshJobs(js, schedules, i) ==
    IF i >= Len(schedules) THEN js
    ELSE LET t == RefreshTime(schedules[i + 1].hour, schedules[i + 1].minute)
         IN AddRefreshJobs(
                AddJob(js, RefreshJobId(i), "refresh_podcasts", t.hour, t.minute),
                schedules, i + 1)

\* lines 48-52
LoadSchedules(raw) == IF raw.json THEN raw.entries ELSE DefaultSchedules

UpdateJobsResult(js, raw) ==
    LET kept == {j \in js : ~IsOwnedJob(j.id)}
        schedules == LoadSchedules(raw)
        gen == AddGenerationJobs(kept, schedules, 0)
    IN IF gen.raised THEN gen
       ELSE [jobs |-> AddRefreshJobs(gen.jobs, schedules, 0), raised |-> FALSE]

IdleJobs ==
    /\ schedules_raw = [json |-> TRUE, entries |-> DefaultSchedules]
    /\ jobs = {}
    /\ sched_status = "stopped"

InitJobs ==
    /\ schedules_raw \in Schedules(MaxSchedules)
    /\ jobs = {}
    /\ sched_status = "stopped"

\* start_scheduler, called once by create_app; when _update_jobs raises the
\* application does not come up.
StartScheduler ==
    /\ sched_status = "stopped"
    /\ LET out == UpdateJobsResult(jobs, schedules_raw)
       IN /\ jobs' = out.jobs
          /\ sched_status' = IF out.raised THEN "crashed" ELSE "ok"
    /\ UNCHANGED <<schedules_raw, orchVars, epVars, runVars, ilVars, cntVars, extVars>>

\* POST /api/settings with "schedules": the value is saved and reschedule()
\* is called.
SaveSchedules ==
    /\ sched_status \in {"ok", "raised"}
    /\ \E raw \in Schedules(MaxSchedules) :
        /\ schedules_raw' = raw
        /\ LET out == UpdateJobsResult(jobs, raw)
           IN /\ jobs' = out.jobs
              /\ sched_status' = IF out.raised THEN "raised" ELSE "ok"
    /\ UNCHANGED <<orchVars, epVars, runVars, ilVars, cntVars, extVars>>

(***************************************************************************)
(* scheduler.get_next_runs and get_next_run                                *)
(***************************************************************************)
\* The times of day at which the status is asked for.
Clocks == {[day |-> 0, hour |-> 0, minute |-> 0],
           [day |-> 0, hour |-> 0, minute |-> 5],
           [day |-> 0, hour |-> 6, minute |-> 15],
           [day |-> 0, hour |-> 6, minute |-> 30],
           [day |-> 0, hour |-> 23, minute |-> 59]}

\* job.next_run_time of a running scheduler: the first time after now at
\* which the job's CronTrigger(hour, minute) fires.
NextRunTime(j, now) ==
    [day |-> IF j.hour > now.hour \/ (j.hour = now.hour /\ j.minute > now.minute)
             THEN now.day ELSE now.day + 1,
     hour |-> j.hour, minute |-> j.minute]

\* strftime("%Y-%m-%d %H:%M:%S"): the text is the zero-padded fields in this
\* order, the seconds of a cron time being 00.
FormatRun(t) == <<t.day, t.hour, t.minute, 0>>

\* str < str on two such texts: the first field that differs decides.
RECURSIVE TextLess(_, _)
TextLess(a, b) ==
    IF a = <<>> \/ b = <<>> THEN a = <<>> /\ b # <<>>
    ELSE IF Head(a) # Head(b) THEN Head(a) < Head(b)
    ELSE TextLess(Tail(a), Tail(b))

\* runs.sort()
RECURSIVE Sorted(_)
Sorted(runs) ==
    IF runs = <<>> THEN <<>>
    ELSE LET least == CHOOSE i \in 1..Len(runs) :
                        \A k \in 1..Len(runs) : ~TextLess(runs[k], runs[i])
         IN <<runs[least]>>
                \o Sorted(SubSeq(runs, 1, least - 1) \o SubSeq(runs, least + 1, Len(runs)))

\* line 107: job.id.startswith(JOB_PREFIX) and job.next_run_time
IsListedJob_Any(j) == TRUE
IsListedJob(j) == StartsWith(j.id, JOB_PREFIX)

\* The jobs of a set as a list, by the index their id ends with.
RECURSIVE JobList(_)
JobList(S) ==
    IF S = {} THEN <<>>
    ELSE LET first == CHOOSE x \in S : \A y \in S :
                        \/ x.id[Len(x.id)].d < y.id[Len(y.id)].d
                        \/ x.id[Len(x.id)].d = y.id[Len(y.id)].d /\ Len(x.id) <= Len(y.id)
         IN <<first>> \o JobList(S \ {first})

\* lines 105-110; order is the order in which scheduler.get_jobs() lists
\* the jobs that pass the test of line 107.
GetNextRuns(js, now, order) ==
    LET listed == JobList({j \in js : IsListedJob(j)})
        runs == [i \in 1..Len(listed) |-> FormatRun(NextRunTime(listed[order[i]], now))]
    IN Sorted(runs)

\* lines 116-117: runs[0] if runs else None
GetNextRun(runs) == IF runs # <<>> THEN {runs[1]} ELSE {}

IdleQuery ==
    /\ nr_now = {}
    /\ nr_runs = <<>>
    /\ nr_next = {}

\* GET /api/status (app.py 38-52) as far as the scheduler goes:
\* scheduler.get_next_run() and scheduler.get_next_runs().
Status ==
    /\ sched_status \in {"ok", "raised"}
    /\ \E now \in Clocks :
        \E order \in ShuffleOutcomes(Cardinality({j \in jobs : IsListedJob(j)})) :
            /\ nr_now' = {now}
            /\ nr_runs' = GetNextRuns(jobs, now, order)
            /\ nr_next' = GetNextRun(GetNextRuns(jobs, now, order))
    /\ UNCHANGED <<jobVars, orchVars, epVars, runVars, ilVars, cntVars, upd, connVars, dbVars, dlVars, selVars>>

(***************************************************************************)
(* scheduler._update_jobs as the threads of the application see it: the    *)
(* request thread that handles POST /api/settings removes and adds the     *)
(* jobs one scheduler call after the other, under no lock of its own,      *)
(* while other request threads ask for the status.                         *)
(***************************************************************************)
\* stage: "idle", "generation" (the loop of lines 54-69) or "refresh" (the
\* loop of lines 72-86); i: the loop index; schedules: the parsed setting;
\* before: the generation jobs held when the call began; calls: the number
\* of calls begun so far.
IdleUpdate == [stage |-> "idle", i |-> 0, schedules |-> <<>>, before |-> {}, calls |-> 0]

NotUpdating == upd = IdleUpdate

\* app.api_save_settings lines 82-90 and _update_jobs lines 43-52: the
\* setting is stored, the owned jobs are removed, the setting is read back.
RescheduleBegin ==
    /\ sched_status \in {"ok", "raised"}
    /\ upd.stage = "idle"
    /\ upd.calls < MaxReschedules
    /\ \E raw \in Schedules(MaxSchedules) :
        /\ schedules_raw' = raw
        /\ upd' = [stage |-> "generation", i |-> 0, schedules |-> LoadSchedules(raw),
                   before |-> {j \in jobs : j.func = "_run_generation"},
                   calls |-> upd.calls + 1]
    /\ jobs' = {j \in jobs : ~IsOwnedJob(j.id)}
    /\ UNCHANGED <<sched_status, qryVars, connVars, dbVars, dlVars, selVars, orchVars, epVars, runVars, ilVars, cntVars>>

\* One pass of the loop of lines 54-69, or its end; int() raising ends the
\* call where it stands.
RescheduleGeneration ==
    /\ upd.stage = "generation"
    /\ IF upd.i >= Len(upd.schedules)
       THEN /\ upd' = [upd EXCEPT !.stage = "refresh", !.i = 0]
            /\ UNCHANGED <<jobs, sched_status>>
       ELSE IF ~upd.schedules[upd.i + 1].numeric
       THEN /\ upd' = [upd EXCEPT !.stage = "idle", !.i = 0, !.schedules = <<>>]
            /\ sched_status' = "raised"
            /\ UNCHANGED jobs
       ELSE /\ jobs' = AddJob(jobs, GenJobId(upd.i), "_run_generation",
                              upd.schedules[upd.i + 1].hour,
                              upd.schedules[upd.i + 1].minute)
            /\ upd' = [upd EXCEPT !.i = upd.i + 1]
            /\ UNCHANGED sched_status
    /\ UNCHANGED <<schedules_raw, qryVars, connVars, dbVars, dlVars, selVars, orchVars, epVars, runVars, ilVars, cntVars>>

\* One pass of the loop of lines 72-86, or the return of the call.
RescheduleRefresh ==
    /\ upd.stage = "refresh"
    /\ IF upd.i >= Len(upd.schedules)
       THEN /\ upd' = [upd EXCEPT !.stage = "idle", !.i = 0, !.schedules = <<>>]
            /\ sched_status' = "ok"
            /\ UNCHANGED jobs
       ELSE LET t == RefreshTime(upd.schedules[upd.i + 1].hour,
                                 upd.schedules[upd.i + 1].minute)
            IN /\ jobs' = AddJob(jobs, RefreshJobId(upd.i), "refresh_podcasts",
                                 t.hour, t.minute)
               /\ upd' = [upd EXCEPT !.i = upd.i + 1]
               /\ UNCHANGED sched_status
    /\ UNCHANGED <<schedules_raw, qryVars, connVars, dbVars, dlVars, selVars, orchVars, epVars, runVars, ilVars, cntVars>>

(***************************************************************************)
(* plex_client: get_server, get_server_for_user, reset_connection,         *)
(* test_connection, and the requests of app.py that change what a          *)
(* connection is built from.                                               *)
(***************************************************************************)
\* The values an address or credential takes.
Credentials == 0..MaxCredential
ProfileIds == 1..MaxProfiles

\* A row of the users table as far as connections go.  state: "absent" (not
\* yet added), "present" or "removed" (ids are AUTOINCREMENT, never reused);
\* mode: "token" (plex_token set), "username" (plex_username set, no token)
\* or "none"; cred: the token or the username.
NoProfile == [state |-> "absent", mode |-> "none", cred |-> 0]
RemovedProfile == [state |-> "removed", mode |-> "none", cred |-> 0]
ProfileSettings ==
    {[state |-> "present", mode |-> m, cred |-> c] :
        m \in {"token", "username"}, c \in Credentials}
        \cup {[state |-> "present", mode |-> "none", cred |-> 0]}

\* A connection: the address and admin credential it was built with, the
\* profile it belongs to (0 for the shared connection) and the profile's
\* credential it was built with.
SharedConnection(plex) == [plex |-> plex, who |-> 0, mode |-> "none", cred |-> 0]
UserConnection(plex, id, profile) ==
    [plex |-> plex, who |-> id, mode |-> profile.mode, cred |-> profile.cred]

\* reset_connection, lines 103-106
ResetConnection_SharedOnly(us) == [server |-> {}, user_servers |-> us]
ResetConnection(us) == [server |-> {}, user_servers |-> [id \in ProfileIds |-> {}]]

\* get_server, lines 41-47.  ok: PlexServer(...) connects; otherwise it
\* raises and nothing is cached.
GetServer(srv, plex, ok) ==
    IF srv # {} THEN [server |-> srv, conn |-> srv]
    ELSE IF ok THEN [server |-> {SharedConnection(plex)}, conn |-> {SharedConnection(plex)}]
    ELSE [server |-> {}, conn |-> {}]

\* get_server_for_user, lines 50-82.  ok: building the profile's connection
\* succeeds; shared_ok: building the shared one does.
GetServerForUser(srv, us, plex, id, profile, ok, shared_ok) ==
    IF us[id] # {} THEN [server |-> srv, user_servers |-> us, conn |-> us[id]]
    ELSE IF profile.mode = "token" /\ ok
    THEN [server |-> srv,
          user_servers |-> [us EXCEPT ![id] = {UserConnection(plex, id, profile)}],
          conn |-> {UserConnection(plex, id, profile)}]
    ELSE IF profile.mode = "username" /\ ok /\ GetServer(srv, plex, shared_ok).conn # {}
    THEN LET admin == GetServer(srv, plex, shared_ok)
             built == {UserConnection(c.plex, id, profile) : c \in admin.conn}
         IN [server |-> admin.server,
             user_servers |-> [us EXCEPT ![id] = built],
             conn |-> built]
    ELSE LET shared == GetServer(srv, plex, shared_ok)
         IN [server |-> shared.server, user_servers |-> us, conn |-> shared.conn]

InitConnections ==
    /\ plex_setting \in Credentials
    /\ profiles \in [ProfileIds -> ProfileSettings \cup {NoProfile, RemovedProfile}]
    /\ \A id, other \in ProfileIds :
        (other < id /\ profiles[other].state = "absent") => profiles[id].state = "absent"
    /\ server = {}
    /\ user_servers = [id \in ProfileIds |-> {}]
    /\ conn_used = {}

IdleConnections ==
    /\ plex_setting = 0
    /\ profiles = [id \in ProfileIds |-> NoProfile]
    /\ server = {}
    /\ user_servers = [id \in ProfileIds |-> {}]
    /\ conn_used = {}

ConnRest == <<jobVars, qryVars, upd, dbVars, dlVars, selVars, orchVars, epVars, runVars, ilVars, cntVars>>

\* POST /api/settings, app.py 60-93: with plex_url or plex_token in the
\* request the values are stored and reset_connection is called; without
\* them neither happens.
SaveSettings ==
    /\ \E with_plex \in BOOLEAN, plex \in Credentials :
        IF with_plex
        THEN /\ plex_setting' = plex
             /\ server' = ResetConnection(user_servers).server
             /\ user_servers' = ResetConnection(user_servers).user_servers
        ELSE UNCHANGED <<plex_setting, server, user_servers>>
    /\ conn_used' = {}
    /\ UNCHANGED <<profiles, ConnRest>>

\* POST /api/test-connection, app.py 141-150: the values given are stored,
\* reset_connection, then test_connection (reset_connection and get_server).
TestConnection ==
    /\ \E plex \in Credentials \cup {plex_setting}, ok \in BOOLEAN :
        LET out == GetServer(ResetConnection(user_servers).server, plex, ok)
        IN /\ plex_setting' = plex
           /\ server' = out.server
           /\ user_servers' = ResetConnection(user_servers).user_servers
           /\ conn_used' = out.conn
    /\ UNCHANGED <<profiles, ConnRest>>

\* POST /api/users, app.py 238-265: the row is added, no cache is touched.
AddUser ==
    /\ \E id \in ProfileIds, row \in ProfileSettings :
        /\ profiles[id].state = "absent"
        /\ \A other \in ProfileIds : other < id => profiles[other].state # "absent"
        /\ profiles' = [profiles EXCEPT ![id] = row]
    /\ conn_used' = {}
    /\ UNCHANGED <<plex_setting, server, user_servers, ConnRest>>

\* PUT /api/users/<id>, app.py 268-295: the row is updated and
\* reset_connection is called.
UpdateUser ==
    /\ \E id \in ProfileIds, row \in ProfileSettings :
        /\ profiles[id].state = "present"
        /\ profiles' = [profiles EXCEPT ![id] = row]
    /\ server' = ResetConnection(user_servers).server
    /\ user_servers' = ResetConnection(user_servers).user_servers
    /\ conn_used' = {}
    /\ UNCHANGED <<plex_setting, ConnRest>>

\* DELETE /api/users/<id>, app.py 298-302
RemoveUser ==
    /\ \E id \in ProfileIds :
        /\ profiles[id].state = "present"
        /\ profiles' = [profiles EXCEPT ![id] = RemovedProfile]
    /\ server' = ResetConnection(user_servers).server
    /\ user_servers' = ResetConnection(user_servers).user_servers
    /\ conn_used' = {}
    /\ UNCHANGED <<plex_setting, ConnRest>>

\* A generation for one profile obtains its connection
\* (generator._generate_for_user line 97).
ConnectForUser ==
    /\ \E id \in ProfileIds, ok \in BOOLEAN, shared_ok \in BOOLEAN :
        /\ profiles[id].state = "present"
        /\ LET out == GetServerForUser(server, user_servers, plex_setting, id,
                                       profiles[id], ok, shared_ok)
           IN /\ server' = out.server
              /\ user_servers' = out.user_servers
              /\ conn_used' = out.conn
    /\ UNCHANGED <<plex_setting, profiles, ConnRest>>

\* The global generation, or any other caller of get_server().
ConnectShared ==
    /\ \E ok \in BOOLEAN :
        LET out == GetServer(server, plex_setting, ok)
        IN /\ server' = out.server
           /\ conn_used' = out.conn
    /\ UNCHANGED <<plex_setting, profiles, user_servers, ConnRest>>

(***************************************************************************)
(* database: add_podcast, remove_podcast, set_user_podcasts and the        *)
(* user_podcasts table they work on.                                       *)
(***************************************************************************)
PodcastIds == 1..MaxPodcastCount
Link(user_id, podcast_id) == [user_id |-> user_id, podcast_id |-> podcast_id]

\* get_connection, lines 8-12: the connection sets journal_mode and no
\* other pragma, so foreign keys are enforced only where the SQLite build
\* enables them by default.
ForeignKeysOn(default) == default

\* FOREIGN KEY (podcast_id) REFERENCES podcasts(id) ON DELETE CASCADE,
\* lines 76-82, for DELETE FROM podcasts WHERE id = podcast_id
AfterPodcastDelete(links, podcast_id, enforced) ==
    IF enforced THEN {l \in links : l.podcast_id # podcast_id} ELSE links

\* get_user_podcasts, lines 307-313
GetUserPodcasts(user_id) == {l.podcast_id : l \in {k \in db_links : k.user_id = user_id}}

InitDatabase ==
    /\ db_podcasts = {}
    /\ db_next_podcast = 1
    /\ db_links = {}
    /\ db_foreign_keys \in BOOLEAN

IdleDatabase ==
    /\ db_podcasts = {}
    /\ db_next_podcast = 1
    /\ db_links = {}
    /\ db_foreign_keys = FALSE

DbRest == <<jobVars, qryVars, upd, connVars, dlVars, selVars, orchVars, epVars, runVars, ilVars, cntVars>>

\* add_podcast, lines 205-211
AddPodcast ==
    /\ db_next_podcast \in PodcastIds
    /\ db_podcasts' = db_podcasts \cup {db_next_podcast}
    /\ db_next_podcast' = db_next_podcast + 1
    /\ UNCHANGED <<db_links, db_foreign_keys, DbRest>>

\* set_user_podcasts, lines 296-304
SetUserPodcasts ==
    /\ \E user_id \in ProfileIds, podcast_ids \in SUBSET db_podcasts :
        db_links' = {l \in db_links : l.user_id # user_id}
                        \cup {Link(user_id, p) : p \in podcast_ids}
    /\ UNCHANGED <<db_podcasts, db_next_podcast, db_foreign_keys, DbRest>>

\* remove_podcast, lines 214-216
RemovePodcast ==
    /\ \E podcast_id \in db_podcasts :
        /\ db_podcasts' = db_podcasts \ {podcast_id}
        /\ db_links' = AfterPodcastDelete(db_links, podcast_id,
                                          ForeignKeysOn(db_foreign_keys))
    /\ UNCHANGED <<db_next_podcast, db_foreign_keys, DbRest>>

(***************************************************************************)
(* podcasts.refresh_podcasts and download_episode, and what api_generate   *)
(* does with the count returned.                                           *)
(***************************************************************************)
\* An episode of a feed: whether its file is on disk already, and whether
\* fetching it succeeds.
FeedEpisodes == [on_disk : BOOLEAN, fetch_ok : BOOLEAN]
PodcastFeeds(n) ==
    SeqsUpTo([enabled : BOOLEAN, feed : SeqsUpTo(FeedEpisodes, MaxFeedEpisodes)], n)

\* download_episode, podcasts.py 93-130: the path of the file, or None.
\* path: the value is truthy; written: a file was put on disk.
DownloadEpisode(episode) ==
    IF episode.on_disk THEN [path |-> TRUE, written |-> FALSE]
    ELSE IF episode.fetch_ok THEN [path |-> TRUE, written |-> TRUE]
    ELSE [path |-> FALSE, written |-> FALSE]

\* get_feed_episodes(feed_url, limit): feed.entries[:limit]
GetFeedEpisodes(feed, limit) == Slice(feed, 0, limit)

\* The inner loop of refresh_podcasts, lines 146-149, from episode i on.
RECURSIVE DownloadAll(_, _, _)
DownloadAll(episodes, i, acc) ==
    IF i > Len(episodes) THEN acc
    ELSE LET result == DownloadEpisode(episodes[i])
         IN DownloadAll(episodes, i + 1,
                [total |-> acc.total + (IF result.path THEN 1 ELSE 0),
                 written |-> acc.written + (IF result.written THEN 1 ELSE 0)])

\* refresh_podcasts, lines 132-157, from podcast i on.
RECURSIVE RefreshPodcasts(_, _, _, _)
RefreshPodcasts(podcasts, limit, i, acc) ==
    IF i > Len(podcasts) THEN acc
    ELSE IF ~podcasts[i].enabled THEN RefreshPodcasts(podcasts, limit, i + 1, acc)
    ELSE RefreshPodcasts(podcasts, limit, i + 1,
            DownloadAll(GetFeedEpisodes(podcasts[i].feed, limit), 1, acc))

InitRefresh ==
    /\ rf_podcasts \in PodcastFeeds(MaxFeeds)
    /\ rf_limit \in 1..MaxFeedEpisodes
    /\ rf_total = 0
    /\ rf_written = 0
    /\ rf_stage = "start"

IdleRefresh ==
    /\ rf_podcasts = <<>>
    /\ rf_limit = 1
    /\ rf_total = 0
    /\ rf_written = 0
    /\ rf_stage = "start"

\* app.api_generate lines 109-116: refresh_podcasts(), then the scan and the
\* sleep when the count is positive.
RefreshCall ==
    /\ rf_stage = "start"
    /\ LET out == RefreshPodcasts(rf_podcasts, rf_limit, 1, [total |-> 0, written |-> 0])
       IN /\ rf_total' = out.total
          /\ rf_written' = out.written
          /\ rf_stage' = AfterRefresh("http", [raised |-> FALSE, downloaded |-> out.total])
    /\ UNCHANGED <<rf_podcasts, rf_limit, qryVars, upd, connVars, dbVars, selVars,
                   jobVars, orchVars, epVars, runVars, ilVars, cntVars>>

(***************************************************************************)
(* The track selection: plex_client.get_random_tracks,                     *)
(* get_favorite_tracks, get_discovery_tracks and the two loops of          *)
(* generator._do_generate that call them (lines 141-157).                  *)
(***************************************************************************)
\* A music library: how many of its tracks have been played (viewCount > 0)
\* and how many have not.
Libraries == [played : 0..MaxLibTracks, unplayed : 0..MaxLibTracks]

\* The tracks of the library with key i.
PlayedTracks(i, lib) == {[lib |-> i, played |-> TRUE, no |-> k] : k \in 1..lib.played}
UnplayedTracks(i, lib) == {[lib |-> i, played |-> FALSE, no |-> k] : k \in 1..lib.unplayed}
LibTracks(i, lib) == PlayedTracks(i, lib) \cup UnplayedTracks(i, lib)

\* random.sample(pool, min(count, len(pool))), and searchTracks(sort="random",
\* maxresults=count): any count tracks of the pool, all of it when it is
\* smaller.
Samples(pool, count) ==
    {t \in SUBSET pool : Cardinality(t) = Min(count, Cardinality(pool))}

\* get_random_tracks, lines 141-149.  fails: the server call raises, which
\* the function catches.
GetRandomTracks_Uncaught(i, lib, count, fails) ==
    IF fails THEN {[tracks |-> {}, raised |-> TRUE, path |-> "random"]}
    ELSE {[tracks |-> t, raised |-> FALSE, path |-> "random"] :
            t \in Samples(LibTracks(i, lib), count)}
GetRandomTracks(i, lib, count, fails) ==
    IF fails THEN {[tracks |-> {}, raised |-> FALSE, path |-> "random"]}
    ELSE {[tracks |-> t, raised |-> FALSE, path |-> "random"] :
            t \in Samples(LibTracks(i, lib), count)}

\* get_favorite_tracks, lines 152-182.  fault: "none"; "search" (a server
\* call of the try block raises, the server answers again afterwards);
\* "all" (every server call of the function raises).  The pool of
\* count * 5 most played tracks holds every played track of the library.
GetFavoriteTracks(i, lib, count, fault) ==
    IF fault # "none" THEN GetRandomTracks(i, lib, count, fault = "all")
    ELSE IF PlayedTracks(i, lib) = {} THEN GetRandomTracks(i, lib, count, FALSE)
    ELSE {[tracks |-> t, raised |-> FALSE, path |-> "sample"] :
            t \in Samples(PlayedTracks(i, lib), count)}

\* get_discovery_tracks, lines 185-222; the pool of count * 10 recently
\* added tracks holds every track of the library, so the second search adds
\* nothing.
GetDiscoveryTracks(i, lib, count, fault) ==
    IF fault # "none" THEN GetRandomTracks(i, lib, count, fault = "all")
    ELSE IF UnplayedTracks(i, lib) = {} THEN GetRandomTracks(i, lib, count, FALSE)
    ELSE {[tracks |-> t, raised |-> FALSE, path |-> "sample"] :
            t \in Samples(UnplayedTracks(i, lib), count)}

\* The selector calls of the two loops, in order: favorites for every
\* library, then discoveries for every library.
SelectorCalls(libs, counts) ==
    LET fav == PerLibRequests(counts.favorites, Len(libs))
        disc == PerLibRequests(counts.discovery, Len(libs))
    IN [k \in 1..Len(fav) |-> [selector |-> "favorites", lib |-> k, count |-> fav[k]]]
        \o [k \in 1..Len(disc) |-> [selector |-> "discovery", lib |-> k, count |-> disc[k]]]

CallOutcomes(libs, call, fault) ==
    IF call.selector = "favorites"
    THEN GetFavoriteTracks(call.lib, libs[call.lib], call.count, fault)
    ELSE GetDiscoveryTracks(call.lib, libs[call.lib], call.count, fault)

\* The ways the calls from the i-th on can go when the call numbered
\* fault_at meets the fault (none does when fault_at = 0): the list of
\* calls made, each with what it returned.  An exception ends the list.
RECURSIVE LoopOutcomes(_, _, _, _, _)
LoopOutcomes(libs, calls, i, fault_at, fault) ==
    IF i > Len(calls) THEN {<<>>}
    ELSE LET here == CallOutcomes(libs, calls[i], IF i = fault_at THEN fault ELSE "none")
             entry(out) == [selector |-> calls[i].selector, lib |-> calls[i].lib,
                            count |-> calls[i].count,
                            fault |-> IF i = fault_at THEN fault ELSE "none",
                            tracks |-> out.tracks, raised |-> out.raised,
                            path |-> out.path]
         IN UNION {IF out.raised THEN {<<entry(out)>>}
                   ELSE {<<entry(out)>> \o rest :
                            rest \in LoopOutcomes(libs, calls, i + 1, fault_at, fault)} :
                   out \in here}

\* The tracks of a returned list in the order of the list (the order within
\* one sample is not modelled: tracks are listed played first, by number).
RECURSIVE AsList(_)
AsList(tracks) ==
    IF tracks = {} THEN <<>>
    ELSE LET first == CHOOSE t \in tracks : \A u \in tracks :
                        \/ t.played /\ ~u.played
                        \/ t.played = u.played /\ t.no <= u.no
         IN <<first>> \o AsList(tracks \ {first})

\* music_tracks.extend(tracks) for every call of the log
RECURSIVE Extended(_, _)
Extended(log, i) ==
    IF i > Len(log) THEN <<>> ELSE AsList(log[i].tracks) \o Extended(log, i + 1)

InitSelection ==
    /\ sel_libs \in SeqsUpTo(Libraries, MaxSelLibs) \ {<<>>}
    /\ sel_counts \in [favorites : 0..MaxSelCount, discovery : 0..MaxSelCount]
    /\ sel_tracks = <<>>
    /\ sel_log = <<>>
    /\ sel_raised = FALSE
    /\ sel_done = FALSE

IdleSelection ==
    /\ sel_libs = <<>>
    /\ sel_counts = [favorites |-> 0, discovery |-> 0]
    /\ sel_tracks = <<>>
    /\ sel_log = <<>>
    /\ sel_raised = FALSE
    /\ sel_done = FALSE

\* generator._do_generate lines 138-157.  At most one selector call of a run
\* meets a failing server.
SelectTracks ==
    /\ ~sel_done
    /\ LET calls == SelectorCalls(sel_libs, sel_counts)
       IN \E fault_at \in 0..Len(calls), fault \in {"search", "all"} :
            \E log \in LoopOutcomes(sel_libs, calls, 1, fault_at, fault) :
                /\ sel_log' = log
                /\ sel_tracks' = Extended(log, 1)
                /\ sel_raised' = (\E k \in 1..Len(log) : log[k].raised)
    /\ sel_done' = TRUE
    /\ UNCHANGED <<sel_libs, sel_counts, qryVars, upd, connVars, dbVars, dlVars,
                   jobVars, orchVars, epVars, runVars, ilVars, cntVars>>

IdleExt ==
    IdleQuery /\ NotUpdating /\ IdleConnections /\ IdleDatabase /\ IdleRefresh
        /\ IdleSelection
IdleRest == IdleOrch /\ IdleEpisodes /\ IdleJobs /\ IdleExt

(***************************************************************************)
(* Initial states.                                                         *)
(***************************************************************************)
\* Titles the server may hold before the program runs: dated playlists of
\* both formats, titles whose date does not parse, other owners' playlists.
SeedTitles ==
    {PlaylistName(DailyDrive, 0),
     PlaylistName(DailyDrive, 1),
     DailyDrive \o <<SEP>> \o Strftime(0, "%Y-%m-%d"),
     DailyDrive \o <<LP>> \o Strftime(0, "%Y-%m-%d") \o <<RP>>,
     DailyDrive \o <<Word("Favourites")>>,
     DailyDrive \o <<SEP>> \o Strftime(0, "%Y-%m-%d") \o <<LP, Word("live"), RP>>,
     PlaylistName(DailyDriveKids, 0),
     PlaylistName(Workout, 0)}

\* The server's playlists for a list of distinct titles, ids in list order.
Injective(f) == \A i, j \in DOMAIN f : f[i] = f[j] => i = j
TitleLists(n) == {t \in SeqsUpTo(SeedTitles, n) : Injective(t)}
PlaylistsOf(titles) ==
    {[id |-> i, title |-> titles[i], items |-> <<SomeTrack>>,
      poster |-> FALSE, summary |-> FALSE] : i \in 1..Len(titles)}

InitServer(titles, day) ==
    /\ today = day
    /\ playlists = PlaylistsOf(titles)
    /\ next_id = Len(titles) + 1
    /\ history = <<>>
    /\ pc = [p \in Threads |-> "idle"]
    /\ run = [p \in Threads |-> IdleRun]
    /\ runs_started = 0

IdleRuns == InitServer(<<>>, 0)

(***************************************************************************)
(* Claims about _interleave (checked under SpecInterleave).                *)
(***************************************************************************)
Items == Tracks \cup Episodes

\* C1: for every music list M and non-empty episode list E, the result of
\* _interleave has length |M| + |E| and holds every element of M and of E
\* exactly as often as the inputs do (nothing dropped, nothing duplicated).
C1_InterleaveKeepsAllItems ==
    (il_done /\ il_episodes # <<>>) =>
        /\ Len(il_result) = Len(il_input) + Len(il_episodes)
        /\ \A x \in Items :
            Occurrences(il_result, x) =
                Occurrences(il_input, x) + Occurrences(il_episodes, x)

C1_Witness ==
    /\ il_done
    /\ Len(il_input) = MaxMusic
    /\ Len(il_episodes) = 2
    /\ il_music # il_input
    /\ Len(il_result) = MaxMusic + 2

\* The shape of a result: the episodes it emits, in order, and the number of
\* music items in front of each of them and behind the last.
EmittedEpisodes(r) == SelectSeq(r, LAMBDA x : x.kind = "episode")
EpisodePositions(r) == {i \in 1..Len(r) : r[i].kind = "episode"}
NthEpisodeAt(r, k) ==
    CHOOSE i \in EpisodePositions(r) :
        Cardinality({j \in EpisodePositions(r) : j < i}) = k - 1
MusicBefore(r, k) ==
    NthEpisodeAt(r, k) - (IF k = 1 THEN 0 ELSE NthEpisodeAt(r, k - 1)) - 1
TrailingMusic(r) == Len(r) - NthEpisodeAt(r, Cardinality(EpisodePositions(r)))

ClaimedBlock(m, e) == IF m \div (e + 1) > 1 THEN m \div (e + 1) ELSE 1

\* C2 as stated: with block_size = max(1, m // (e+1)), the i-th episode is the
\* i-th emitted and has exactly block_size music items in front of it, and the
\* trailing block has m - e*block_size >= 0 items, also when m < e.
C2_AsClaimed ==
    (il_done /\ il_episodes # <<>>) =>
        LET m == Len(il_input)
            e == Len(il_episodes)
            bs == ClaimedBlock(m, e)
        IN /\ EmittedEpisodes(il_result) = il_episodes
           /\ \A k \in 1..e : MusicBefore(il_result, k) = bs
           /\ TrailingMusic(il_result) = m - e * bs
           /\ m - e * bs >= 0

\* C2 amended: the i-th episode is the i-th emitted; it has
\* min(block_size, music items left) music items in front of it, and the
\* trailing block has max(0, m - e*block_size) items.  For m >= e this is the
\* claim as stated; for m < e the first m episodes get one music item each,
\* the others none, and the trailing block is empty.
C2_BlocksClampedToMusicLeft ==
    (il_done /\ il_episodes # <<>>) =>
        LET m == Len(il_input)
            e == Len(il_episodes)
            bs == ClaimedBlock(m, e)
        IN /\ EmittedEpisodes(il_result) = il_episodes
           /\ \A k \in 1..e :
                MusicBefore(il_result, k) = Min(bs, Max(0, m - (k - 1) * bs))
           /\ TrailingMusic(il_result) = Max(0, m - e * bs)
           /\ m >= e =>
                /\ \A k \in 1..e : MusicBefore(il_result, k) = bs
                /\ TrailingMusic(il_result) = m - e * bs

C2_Witness ==
    /\ il_done
    /\ Len(il_input) = 1
    /\ Len(il_episodes) = 2
    /\ MusicBefore(il_result, 1) = 1
    /\ MusicBefore(il_result, 2) = 0
    /\ TrailingMusic(il_result) = 0

\* C3: with an empty episode list _interleave returns the music list in its
\* input order, with an empty music list it returns the episode list in its
\* input order.
C3_EmptySideReturnsOtherUnchanged ==
    il_done =>
        /\ il_episodes = <<>> => il_result = il_input /\ il_music = il_input
        /\ il_input = <<>> => il_result = il_episodes

C3_Witness ==
    /\ il_done
    /\ il_episodes = <<>>
    /\ Len(il_input) = 3
    /\ il_input[1] # il_input[2]
    /\ il_result = il_input

(***************************************************************************)
(* Claims about the count computation (checked under SpecCounts).          *)
(***************************************************************************)
RECURSIVE SumSeq(_)
SumSeq(s) == IF s = <<>> THEN 0 ELSE s[1] + SumSeq(Tail(s))

\* C4: for every non-negative music_count and every discovery_ratio,
\* discovery_count + favorites_count = music_count and both are >= 0.
C4_SplitSumsToMusicCount ==
    cnt_done =>
        /\ discovery_count + favorites_count = music_count
        /\ discovery_count >= 0
        /\ favorites_count >= 0

C4_Witness ==
    /\ cnt_done
    /\ discovery_ratio > 100
    /\ music_count = MaxMusicCount
    /\ discovery_count = music_count
    /\ favorites_count = 0

\* C5: for a count c > 0 and n >= 1 libraries the requested per-library
\* counts sum to c, each is c//n or c//n + 1, and exactly the first c % n
\* libraries get the extra one, also when c < n.
EvenSplit(c, req, n) ==
    c > 0 =>
        /\ Len(req) = n
        /\ SumSeq(req) = c
        /\ \A k \in 1..n :
            req[k] = (c \div n) + (IF k - 1 < c % n THEN 1 ELSE 0)

C5_AsClaimed ==
    cnt_done =>
        /\ EvenSplit(favorites_count, fav_requests, num_libs)
        /\ EvenSplit(discovery_count, disc_requests, num_libs)

(***************************************************************************)
(* Claims about the publisher, the cleanup and the generation run.         *)
(***************************************************************************)
\* C6 as stated: whatever the interleaving of scheduled and requested runs,
\* the server never holds two playlists with the same date-stamped name of a
\* profile.
IsProfileName(title) ==
    \E prefix \in Prefixes, day \in 0..MaxDay : title = PlaylistName(prefix, day)

C6_AsClaimed ==
    \A a, b \in playlists :
        (a.title = b.title /\ IsProfileName(a.title)) => a.id = b.id

Named(name) == {pl \in playlists : pl.title = name}

\* C7: two calls of update_or_create_playlist in succession with the same
\* name and items never leave two playlists of that name, and when the second
\* call returns a playlist it is the only one of that name, holds exactly the
\* items passed, and is the playlist the first call returned (updated in
\* place, not created again).
C7_SecondCallUpdatesInPlace ==
    LET r == run["caller"]
    IN r.calls >= 1 =>
        /\ Cardinality(Named(r.name)) <= 1
        /\ (pc["caller"] = "returned" /\ r.calls = 2 /\ r.playlist # {}) =>
            /\ \E pl \in Named(r.name) :
                /\ Named(r.name) = {pl}
                /\ pl.items = r.items
                /\ r.playlist = {pl.id}
            /\ r.first # {} => (r.existing = r.first /\ r.playlist = r.first)

C7_Witness ==
    LET r == run["caller"]
    IN /\ pc["caller"] = "returned"
       /\ r.calls = 2
       /\ r.first # {}
       /\ r.playlist = r.first
       /\ Len(r.items) = 2
       /\ Cardinality(playlists) = 1
       /\ next_id = 2

\* The date a title carries in one of the two known formats:
\* "<...> (<DD.MM.YYYY>)" or "<...> - <YYYY-MM-DD>".
CarriesDate(title, day) ==
    LET n == Len(title)
    IN \/ /\ n >= 3
          /\ SubSeq(title, n - 2, n) = <<LP, [k |-> "%d.%m.%Y", d |-> day], RP>>
       \/ /\ n >= 2
          /\ SubSeq(title, n - 1, n) = <<SEP, [k |-> "%Y-%m-%d", d |-> day]>>

\* Midnight of that day is earlier than the time of the call minus keep_days.
OutsideWindow(day, call_day, call_late, keep_days) ==
    \/ day < call_day - keep_days
    \/ day = call_day - keep_days /\ call_late

ShouldDelete(title, prefix, call_day, call_late, keep_days) ==
    /\ StartsWith(title, prefix)
    /\ \E day \in 0..MaxDay :
        CarriesDate(title, day) /\ OutsideWindow(day, call_day, call_late, keep_days)

\* C8: a call of _cleanup_old_playlists deletes only playlists whose title
\* starts with the prefix and carries a date of a known format that is older
\* than now - keep_days (so none inside the window); when no server call
\* fails it deletes every such playlist, an unparsable title neither raising
\* nor ending the scan.
C8_CleanupDeletesExactlyOldDated ==
    [][\A p \in Threads :
        (pc[p] = "cleanup" /\ pc'[p] = "lookup") =>
            LET c == run'[p].cleanup
                old(pl) == ShouldDelete(pl.title, run[p].prefix, today, c.late,
                                        run[p].keep_days)
            IN /\ playlists' \subseteq playlists
               /\ \A pl \in playlists \ playlists' : old(pl)
               /\ c.fault = "none" =>
                    /\ ~c.raised
                    /\ \A pl \in playlists : old(pl) => pl \notin playlists'
      ]_vars

C8_Witness ==
    /\ pc["cleaner"] = "lookup"
    /\ run["cleaner"].cleanup.fault = "none"
    /\ run["cleaner"].prefix = DailyDrive
    /\ next_id = 4
    /\ \E a, c \in playlists :
        /\ a.id = 1
        /\ a.title = DailyDrive \o <<LP>> \o Strftime(0, "%Y-%m-%d") \o <<RP>>
        /\ c.title = PlaylistName(DailyDrive, 1)
        /\ playlists = {a, c}

\* C9: update_or_create_playlist returns None exactly when a call of the
\* create-or-update step raised (connecting, listing, removing or adding items,
\* creating); a failing poster upload or description edit never does.
C9_NullIffCoreStepRaised ==
    \A p \in Threads :
        pc[p] = "returned" => (run[p].playlist = {} <=> run[p].core_raised)

C9_Witness ==
    \E p \in Runners :
        /\ pc[p] = "returned"
        /\ run[p].playlist # {}
        /\ run[p].meta_failed

\* C10: a generation run appends exactly one history row and returns a result
\* when the publisher returned a playlist, and leaves the history unchanged
\* and returns None when it returned None; nothing else writes the history.
C10_HistoryIffPublished ==
    [][/\ \A p \in Runners :
            (pc[p] = "returned" /\ pc'[p] = "done") =>
                LET row == [name |-> run[p].name, total |-> Len(run[p].items),
                            podcasts |-> Len(run[p].episodes),
                            music |-> Len(run[p].music)]
                IN IF run[p].playlist # {}
                   THEN history' = Append(history, row) /\ run'[p].result = {row}
                   ELSE history' = history /\ run'[p].result = {}
       /\ (\A p \in Runners : ~(pc[p] = "returned" /\ pc'[p] = "done")) =>
            history' = history
       /\ \A p \in Runners :
            (pc[p] = "idle" /\ pc'[p] = "done") => run'[p].result = {}
      ]_vars

C10_Witness ==
    \E p, q \in Runners :
        /\ p # q
        /\ pc[p] = "done"
        /\ run[p].result # {}
        /\ pc[q] = "done"
        /\ run[q].core_raised
        /\ run[q].result = {}
        /\ Len(history) = 1

(***************************************************************************)
(* Claims about the triggers and the orchestration (SpecTrigger).          *)
(***************************************************************************)
\* The runs made so far, as the users they were for.
CycleUsers == [i \in 1..Len(cycles) |-> cycles[i].who]
KnownUser(who) == who \in 1..Len(users)

\* The skip conditions read as applying to every run alike.
ClaimedSkip(who) ==
    \/ ~settings.enabled
    \/ KnownUser(who) /\ ~users[who].enabled
    \/ IF who = 0 THEN ~settings.libs ELSE KnownUser(who) /\ ~users[who].libs

\* C11 as stated: a run, global or for a profile, ends in Skipped when
\* generation is globally disabled, when the profile is disabled or when no
\* music libraries are configured; nothing is selected then, no playlist is
\* deleted, created or updated and no history record is written.
C11_AsClaimed ==
    /\ \A i \in 1..Len(cycles) :
        ClaimedSkip(cycles[i].who) =>
            /\ cycles[i].outcome = "skipped"
            /\ ~cycles[i].selected
            /\ ~cycles[i].touched
    /\ flow.stage = "core" => ~ClaimedSkip(Head(flow.queue))

\* The skip conditions, each for the kind of run that reads it: the global
\* enabled setting for the global run, the profile's enabled flag for the
\* profile's run, the run's own music_libraries for both.
ConfiguredToSkip(who) ==
    IF who = 0
    THEN ~settings.enabled \/ ~settings.libs
    ELSE KnownUser(who) /\ (~users[who].enabled \/ ~users[who].libs)

\* C11 amended: the global run ends in Skipped when generation is globally
\* disabled or no music libraries are configured globally; a profile's run
\* ends in Skipped when the profile is disabled or has no music libraries
\* (the global enabled setting is not read by a profile's run).  A skipped
\* run selects nothing, changes no playlist and writes no history record,
\* and a run is skipped only for these reasons or for an unknown user id.
C11_SkippedRunsTouchNothing ==
    /\ \A i \in 1..Len(cycles) :
        /\ ConfiguredToSkip(cycles[i].who) =>
            /\ cycles[i].outcome = "skipped"
            /\ ~cycles[i].selected
            /\ ~cycles[i].touched
        /\ cycles[i].outcome = "skipped" =>
            ConfiguredToSkip(cycles[i].who) \/ ~KnownUser(cycles[i].who)
    /\ flow.stage = "core" => ~ConfiguredToSkip(Head(flow.queue))

C11_Witness ==
    /\ flow.stage = "done"
    /\ flow.fanout
    /\ Len(cycles) = 2
    /\ cycles[1].outcome = "published" /\ cycles[1].touched
    /\ cycles[2].outcome = "skipped" /\ ~users[cycles[2].who].libs
    /\ playlists # {}

\* C12: in generate_all_playlists with several enabled profiles, an error
\* raised in one profile's run never keeps the run of another enabled profile
\* from being made; the call returns the list of the successful results, or
\* null when no profile produced one.
C12_FanOutSurvivesErrors ==
    (flow.stage = "done" /\ flow.fanout) =>
        LET ok == SelectSeq(cycles, LAMBDA c : c.outcome = "published")
        IN /\ CycleUsers = EnabledUsers(users)
           /\ ~flow.raised
           /\ Len(flow.results) = Len(ok)
           /\ \A k \in 1..Len(ok) :
                flow.results[k].name = PlaylistName(PrefixOfUser(ok[k].who), today)
           /\ flow.returned = IF ok = <<>> THEN {} ELSE {flow.results}

C12_Witness ==
    /\ flow.stage = "done"
    /\ flow.fanout
    /\ Len(cycles) = 2
    /\ cycles[1].outcome = "raised"
    /\ cycles[2].outcome = "published"
    /\ flow.returned = {flow.results}
    /\ Len(flow.results) = 1

\* C13: generate_all_playlists makes the single run with the global
\* configuration when no profile is configured, and makes no run with the
\* global configuration when at least one enabled profile exists.
C13_GlobalRunOnlyWithoutProfiles ==
    (flow.stage = "done" /\ flow.p = "http" /\ flow.user_id = 0) =>
        /\ users = <<>> => CycleUsers = <<0>>
        /\ EnabledUsers(users) # <<>> => \A i \in 1..Len(cycles) : cycles[i].who # 0

C13_Witness ==
    /\ flow.stage = "done"
    /\ flow.p = "http"
    /\ flow.user_id = 0
    /\ users = <<>>
    /\ Len(cycles) = 1
    /\ cycles[1].who = 0
    /\ cycles[1].outcome = "published"

\* C14 as stated: when the scheduled trigger fires while enabled profiles
\* exist, one run is made for each enabled profile; the single global run is
\* made only when no profile is enabled.
C14_AsClaimed ==
    (flow.stage = "done" /\ flow.p = "sched") =>
        CycleUsers = IF EnabledUsers(users) # <<>> THEN EnabledUsers(users) ELSE <<0>>

\* C15 as stated: on both paths that start a generation, when the podcast
\* refresh reports a downloaded file, the rescan is triggered and the wait is
\* taken before the selection of the generation begins.
C15_AsClaimed ==
    (flow.selected /\ flow.downloaded > 0) => (flow.scan_called /\ flow.waited)

Subscriptions ==
    IF ep_user_podcasts # {} THEN CHOOSE l \in ep_user_podcasts : TRUE ELSE ep_podcasts
EnabledSubscriptions == SelectSeq(Subscriptions, LAMBDA r : r.enabled)

\* Episodes the first k enabled subscriptions contribute.
FoundUpTo(k) ==
    Cardinality({i \in 1..k : EnabledSubscriptions[i].today /\ EnabledSubscriptions[i].in_plex})

\* The first point in the iteration where max_count episodes have been found
\* (0: before the first subscription; none: past the last one).
StopPoint ==
    IF \E k \in 0..Len(EnabledSubscriptions) : FoundUpTo(k) >= ep_max_count
    THEN CHOOSE k \in 0..Len(EnabledSubscriptions) :
            /\ FoundUpTo(k) >= ep_max_count
            /\ \A j \in 0..(k - 1) : FoundUpTo(j) < ep_max_count
    ELSE Len(EnabledSubscriptions)

\* C17 as stated: for every max_count >= 0 the function returns at most
\* max_count episode handles, in subscription iteration order, and fetches no
\* feed of a subscription that comes after the point where max_count episodes
\* have been found.
C17_AsClaimed ==
    ep_done =>
        /\ Len(ep_result) <= ep_max_count
        /\ \A i, j \in 1..Len(ep_result) : i < j => ep_result[i].id < ep_result[j].id
        /\ \A c \in 1..Len(ep_calls) :
            ep_calls[c].kind = "feed" =>
                \E k \in 1..StopPoint : EnabledSubscriptions[k].id = ep_calls[c].sub

\* C18: when no subscription is enabled, in global mode or in a profile's
\* own list, the function returns the empty list and makes no feed call and
\* no media-server call.
C18_NoEnabledSubscriptionNoCall ==
    (ep_done /\ EnabledSubscriptions = <<>>) =>
        /\ ep_result = <<>>
        /\ ep_calls = <<>>

C18_Witness ==
    /\ ep_done
    /\ ep_user_podcasts # {}
    /\ ep_max_count > 0
    /\ Len(Subscriptions) = 2
    /\ \A i \in 1..2 : ~Subscriptions[i].enabled /\ Subscriptions[i].today /\ Subscriptions[i].in_plex
    /\ ep_result = <<>>
    /\ ep_calls = <<>>

(***************************************************************************)
(* Claims about the scheduler's jobs (SpecScheduler).                      *)
(***************************************************************************)
\* The schedule entries of the current configuration.
CurrentSchedules == LoadSchedules(schedules_raw)

GenerationJobs == {j \in jobs : j.func = "_run_generation"}

\* The triggers the current configuration asks for.
DerivedGenerationJobs ==
    {[id |-> GenJobId(i - 1), func |-> "_run_generation",
      hour |-> CurrentSchedules[i].hour, minute |-> CurrentSchedules[i].minute] :
        i \in 1..Len(CurrentSchedules)}
MinutesOfDay(hour, minute) == 60 * hour + minute
DerivedRefreshJobs ==
    {[id |-> RefreshJobId(i - 1), func |-> "refresh_podcasts",
      hour |-> ((MinutesOfDay(CurrentSchedules[i].hour, CurrentSchedules[i].minute)
                    + 1440 - 15) % 1440) \div 60,
      minute |-> ((MinutesOfDay(CurrentSchedules[i].hour, CurrentSchedules[i].minute)
                    + 1440 - 15) % 1440) % 60] :
        i \in 1..Len(CurrentSchedules)}

\* C19 as stated: after start and after any sequence of reschedule calls the
\* triggers the scheduler owns (generation triggers and the refresh triggers
\* 15 minutes early) are exactly those derived from the current schedule
\* configuration; none derived from an earlier configuration survives.
C19_AsClaimed ==
    sched_status = "ok" => jobs = DerivedGenerationJobs \cup DerivedRefreshJobs

\* C20: after every successful re-derivation the scheduler holds exactly one
\* generation trigger per schedule entry of the current configuration, firing
\* at that entry's hour and minute, and no other generation trigger.
C20_OneGenerationJobPerEntry ==
    sched_status = "ok" =>
        /\ GenerationJobs = DerivedGenerationJobs
        /\ Cardinality(GenerationJobs) = Len(CurrentSchedules)
        /\ \A j \in jobs : StartsWith(j.id, JOB_PREFIX) => j \in GenerationJobs

C20_Witness ==
    /\ sched_status = "ok"
    /\ Len(CurrentSchedules) = 1
    /\ \E j \in jobs : j.id = RefreshJobId(1)
    /\ GenerationJobs = {[id |-> GenJobId(0), func |-> "_run_generation",
                          hour |-> 0, minute |-> 5]}

(***************************************************************************)
(* Claims about the refresh time of one entry (SpecRefreshTime).           *)
(***************************************************************************)
RefreshJobOf(i) == {j \in jobs : j.id = RefreshJobId(i - 1)}

\* C21: for every entry hour in 0..23 and minute in 0..59 the refresh trigger
\* of the entry fires exactly 15 minutes earlier modulo 24 hours: the minute
\* wraps below zero, hour 0 wraps to 23, and the trigger's hour and minute
\* stay inside 0..23 and 0..59.
C21_RefreshFifteenMinutesEarly ==
    sched_status = "ok" =>
        \A i \in 1..Len(CurrentSchedules) :
            /\ Cardinality(RefreshJobOf(i)) = 1
            /\ \A j \in RefreshJobOf(i) :
                /\ j.func = "refresh_podcasts"
                /\ j.hour \in 0..23
                /\ j.minute \in 0..59
                /\ MinutesOfDay(j.hour, j.minute) =
                     (MinutesOfDay(CurrentSchedules[i].hour, CurrentSchedules[i].minute)
                        + 1440 - 15) % 1440

C21_Witness ==
    /\ sched_status = "ok"
    /\ CurrentSchedules = <<Entry(0, 5)>>
    /\ \E j \in RefreshJobOf(1) : j.hour = 23 /\ j.minute = 50

(***************************************************************************)
(* Claims about the status query (SpecStatus).                             *)
(***************************************************************************)
\* Minutes from midnight of day 0 to the first firing of hour:minute that is
\* later than now.
UpcomingFire(j, now) ==
    LET at == 1440 * now.day + MinutesOfDay(now.hour, now.minute)
        t == 1440 * now.day + MinutesOfDay(j.hour, j.minute)
    IN IF t > at THEN t ELSE t + 1440

\* The minutes from midnight of day 0 a returned text stands for.
MinutesOfRun(text) == 1440 * text[1] + MinutesOfDay(text[2], text[3])

Ascending(runs) ==
    \A i, k \in 1..Len(runs) : i < k => MinutesOfRun(runs[i]) <= MinutesOfRun(runs[k])

\* runs holds one timestamp per job of S, that of the job's upcoming firing.
ListsExactly(runs, S, now) ==
    /\ Len(runs) = Cardinality(S)
    /\ \A i \in 1..Len(runs) :
        Occurrences(runs, runs[i]) =
            Cardinality({j \in S : UpcomingFire(j, now) = MinutesOfRun(runs[i])})
    /\ \A j \in S : \E i \in 1..Len(runs) : MinutesOfRun(runs[i]) = UpcomingFire(j, now)

EarliestOrNothing(runs, next) ==
    IF runs = <<>> THEN next = {}
    ELSE \E r \in next :
            /\ next = {r}
            /\ \E i \in 1..Len(runs) : runs[i] = r
            /\ \A i \in 1..Len(runs) : MinutesOfRun(r) <= MinutesOfRun(runs[i])

\* What a status query answered, about the set S of jobs.
Answered(S) ==
    \A now \in nr_now :
        /\ Ascending(nr_runs)
        /\ ListsExactly(nr_runs, S, now)
        /\ EarliestOrNothing(nr_runs, nr_next)

\* C22 as stated: get_next_runs returns, in ascending order, the upcoming
\* fire timestamp of every trigger owned by the scheduler (generation and
\* refresh triggers), and get_next_run returns the earliest of them, or
\* nothing when there is none.
C22_AsClaimed ==
    [][jobVars' = jobVars => Answered(jobs)']_vars

\* C22, amended: get_next_runs returns, in ascending order, the upcoming fire
\* timestamp of every generation trigger the scheduler holds (the jobs whose
\* id starts with "daily_drive_") and of no other job, and get_next_run
\* returns the earliest of them, or nothing when there is none.
C22_NextRunsListGenerationJobs ==
    [][jobVars' = jobVars => Answered(GenerationJobs)']_vars

C22_Witness ==
    /\ nr_now = {[day |-> 0, hour |-> 6, minute |-> 15]}
    /\ CurrentSchedules = <<Entry(6, 30), Entry(0, 5)>>
    /\ sched_status = "ok"
    /\ nr_runs = <<<<0, 6, 30, 0>>, <<1, 0, 5, 0>>>>
    /\ nr_next = {<<0, 6, 30, 0>>}

\* The stored configuration is a JSON list of objects with numeric hour and
\* minute.
ValidScheduleList(raw) ==
    raw.json /\ \A i \in 1..Len(raw.entries) : raw.entries[i].numeric

\* C23 as stated: when the persisted schedule configuration is absent or is
\* not a valid JSON list of {hour, minute} objects, re-derivation completes
\* without error and yields exactly one generation trigger, at 06:00.
C23_AsClaimed ==
    (sched_status # "stopped" /\ ~ValidScheduleList(schedules_raw)) =>
        /\ sched_status = "ok"
        /\ GenerationJobs = {[id |-> GenJobId(0), func |-> "_run_generation",
                              hour |-> 6, minute |-> 0]}

(***************************************************************************)
(* Claims about a reschedule that other threads watch (SpecReschedule).    *)
(***************************************************************************)
\* C28 as stated: re-derivation of the trigger set is atomic: in every
\* reachable state, including those a concurrent get_next_runs call or the
\* background runner sees during a reschedule and the state a reschedule
\* leaves that fails on an invalid entry, the set of owned generation
\* triggers is the complete set of the previous configuration or the
\* complete set of the new one, never empty or partial.
C28_AsClaimed ==
    sched_status # "stopped" =>
        \/ GenerationJobs = upd.before
        \/ GenerationJobs = DerivedGenerationJobs

(***************************************************************************)
(* Claims about cleanup across profiles (SpecCleanup).                     *)
(***************************************************************************)
\* The title is a dated playlist name of the profile whose prefix is owner.
NamedBy(title, owner, day) == title = PlaylistName(owner, day)

\* C30 as stated: cleanup for one profile never deletes a playlist of another
\* profile: when one profile's prefix is a leading substring of the other's
\* ("Daily Drive" and "Daily Drive Kids") on the same server, a run of the
\* first deletes none of the second's playlists that are still inside the
\* second's own retention window, whatever that window is.
C30_AsClaimed ==
    [][\A p \in Threads :
        (pc[p] = "cleanup" /\ pc'[p] = "lookup" /\ run[p].prefix = DailyDrive) =>
            \A pl \in playlists \ playlists' :
                \A day \in 0..MaxDay, own_keep_days \in 0..MaxKeepDays :
                    NamedBy(pl.title, DailyDriveKids, day) =>
                        OutsideWindow(day, today, run'[p].cleanup.late, own_keep_days)
      ]_vars

(***************************************************************************)
(* Claims about the connection caches (SpecConnections).                   *)
(***************************************************************************)
\* The connection is built with the address and credentials now stored.
UpToDate(c) ==
    /\ c.plex = plex_setting
    /\ c.who # 0 =>
        /\ profiles[c.who].state = "present"
        /\ c.mode = profiles[c.who].mode
        /\ c.cred = profiles[c.who].cred

Cached == server \cup UNION {user_servers[id] : id \in ProfileIds}

\* C24: after any sequence of settings saves, connection tests, profile
\* additions, updates and deletions and connection uses, every connection
\* that is cached (shared or per profile) and every connection a request
\* obtains was built with the server address and credentials now stored;
\* a request that changes them leaves the shared cache and every
\* per-profile cache empty, or holding only what it built afterwards.
C24_NoStaleConnection ==
    /\ \A c \in Cached \cup conn_used : UpToDate(c)
    /\ \A c \in server : c.who = 0
    /\ \A id \in ProfileIds : \A c \in user_servers[id] : c.who = id

C24_Witness ==
    /\ plex_setting = 1
    /\ server = {}
    /\ conn_used = {UserConnection(1, 1, [state |-> "present", mode |-> "token", cred |-> 1])}
    /\ user_servers[1] = conn_used
    /\ user_servers[2] = {}
    /\ profiles[2].state = "removed"

(***************************************************************************)
(* Claims about the podcast tables (SpecDatabase).                         *)
(***************************************************************************)
\* C26 as stated: after remove_podcast(p) no user-to-podcast assignment link
\* referring to p remains: get_user_podcasts of every user no longer
\* contains p's id.
C26_AsClaimed ==
    [][\A p \in db_podcasts \ db_podcasts' :
        \A user_id \in ProfileIds : p \notin GetUserPodcasts(user_id)']_vars

(***************************************************************************)
(* Claims about the refresh before a generation (SpecDownload).            *)
(***************************************************************************)
\* C27 as stated: the library rescan and the fixed wait before generation
\* are taken only when the podcast refresh put new files on disk: a refresh
\* in which every feed episode was already present on disk reports zero
\* downloads and triggers neither the rescan nor the wait.
C27_AsClaimed ==
    rf_stage # "start" =>
        /\ rf_stage = "scan" => rf_written > 0
        /\ rf_written = 0 => rf_total = 0

(***************************************************************************)
(* Claims about the track selection (SpecSelection).                       *)
(***************************************************************************)
\* The calls the two loops are to make: for each selector with a positive
\* count, one call per configured library, in the order of the libraries.
ExpectedCalls(selector, count) ==
    IF count > 0 THEN [k \in 1..Len(sel_libs) |-> [selector |-> selector, lib |-> k]]
    ELSE <<>>

CallsMade == [k \in 1..Len(sel_log) |-> [selector |-> sel_log[k].selector, lib |-> sel_log[k].lib]]

\* No exception left the selector, every library was queried, and the
\* result holds what every call returned.
RunContinues ==
    /\ ~sel_raised
    /\ CallsMade = ExpectedCalls("favorites", sel_counts.favorites)
                        \o ExpectedCalls("discovery", sel_counts.discovery)
    /\ Len(sel_tracks) = SumSeq([k \in 1..Len(sel_log) |-> Cardinality(sel_log[k].tracks)])
    /\ \A k \in 1..Len(sel_log) : \A t \in sel_log[k].tracks :
            \E n \in 1..Len(sel_tracks) : sel_tracks[n] = t

C29_AsClaimed ==
    sel_done => \A n, m \in 1..Len(sel_tracks) : sel_tracks[n] = sel_tracks[m] => n = m

(***************************************************************************)
(* Specifications.                                                         *)
(***************************************************************************)
InterleaveInit == InitInterleave /\ IdleCounts /\ IdleRuns /\ IdleRest
SpecInterleave == InterleaveInit /\ [][InterleaveCall]_vars

CountsInit == InitCounts /\ IdleInterleave /\ IdleRuns /\ IdleRest
SpecCounts == CountsInit /\ [][ComputeCounts]_vars

\* The scheduler's job thread and a request thread run generations
\* concurrently against one server.
Init ==
    /\ IdleInterleave
    /\ IdleCounts
    /\ IdleRest
    /\ InitServer(<<>>, 0)

Next ==
    \/ Tick
    \/ \E p \in Runners :
        \/ StartRun(p)
        \/ Cleanup(p)
        \/ Lookup(p)
        \/ Clear(p)
        \/ Add(p)
        \/ Create(p)
        \/ Record(p)

Spec == Init /\ [][Next]_vars

\* One thread calls update_or_create_playlist twice with the same arguments.
PublishTwiceInit ==
    /\ IdleInterleave
    /\ IdleCounts
    /\ IdleRest
    /\ \E titles \in TitleLists(1), day \in 0..MaxDay : InitServer(titles, day)

PublishTwiceNext ==
    \E p \in {"caller"} :
        \/ PublishCall(p)
        \/ Lookup(p)
        \/ Clear(p)
        \/ Add(p)
        \/ Create(p)
        \/ PublishAgain(p)

SpecPublishTwice == PublishTwiceInit /\ [][PublishTwiceNext]_vars

\* One thread calls _cleanup_old_playlists on a server holding up to
\* MaxScanPlaylists playlists.
CleanupInit ==
    /\ IdleInterleave
    /\ IdleCounts
    /\ IdleRest
    /\ \E titles \in TitleLists(MaxScanPlaylists), day \in 0..MaxDay : InitServer(titles, day)

CleanupNext ==
    \E p \in {"cleaner"} :
        \/ CleanupCall(p)
        \/ Cleanup(p)

SpecCleanup == CleanupInit /\ [][CleanupNext]_vars

\* One trigger is handled, from its refresh to the end of its runs.
TriggerInit ==
    /\ IdleExt
    /\ IdleInterleave
    /\ IdleCounts
    /\ IdleEpisodes
    /\ IdleJobs
    /\ \E titles \in {<<>>, <<PlaylistName(DailyDriveKids, 0)>>} : InitServer(titles, 0)
    /\ users \in UserRows(MaxProfiles)
    /\ settings \in [enabled : BOOLEAN, libs : BOOLEAN]
    /\ flow = IdleFlow
    /\ cycles = <<>>

TriggerSteps ==
    \/ Refresh
    \/ Scan
    \/ Wait
    \/ Dispatch
    \/ BeginCycle
    \/ EndCycle
    \/ \E p \in Runners :
        \/ Cleanup(p)
        \/ Lookup(p)
        \/ Clear(p)
        \/ Add(p)
        \/ Create(p)
        \/ Record(p)

TriggerNext ==
    \/ \E p \in Runners : Fire(p)
    \/ TriggerSteps

SpecTrigger == TriggerInit /\ [][TriggerNext]_vars

\* A trigger on an installation without profiles.  The thread that handles
\* the trigger keeps running until it is done: refresh_podcasts, the scan
\* and the sleep return or raise, none of them blocks for ever.
RefreshInit ==
    /\ IdleExt
    /\ IdleInterleave
    /\ IdleCounts
    /\ IdleEpisodes
    /\ IdleJobs
    /\ \E titles \in {<<>>, <<PlaylistName(DailyDrive, 0)>>} : InitServer(titles, 0)
    /\ users = <<>>
    /\ settings \in [enabled : BOOLEAN, libs : BOOLEAN]
    /\ flow = IdleFlow
    /\ cycles = <<>>

SpecRefresh == RefreshInit /\ [][TriggerNext]_vars /\ WF_vars(TriggerSteps)

\* One call of _get_todays_podcast_tracks.
EpisodesInit == InitEpisodes /\ IdleExt /\ IdleInterleave /\ IdleCounts /\ IdleRuns /\ IdleOrch /\ IdleJobs
SpecEpisodes == EpisodesInit /\ [][EpisodesCall]_vars

\* The scheduler is started and the schedule is saved any number of times.
SchedulerInit == InitJobs /\ IdleExt /\ IdleInterleave /\ IdleCounts /\ IdleRuns /\ IdleOrch /\ IdleEpisodes
SchedulerNext == StartScheduler \/ SaveSchedules
SpecScheduler == SchedulerInit /\ [][SchedulerNext]_vars

\* Requests that change settings and profiles, and connection uses, one
\* after the other.
ConnectionsInit ==
    /\ InitConnections
    /\ IdleQuery /\ NotUpdating /\ IdleJobs /\ IdleDatabase /\ IdleRefresh /\ IdleSelection
    /\ IdleInterleave /\ IdleCounts /\ IdleRuns /\ IdleOrch /\ IdleEpisodes
ConnectionsNext ==
    \/ SaveSettings
    \/ TestConnection
    \/ AddUser
    \/ UpdateUser
    \/ RemoveUser
    \/ ConnectForUser
    \/ ConnectShared
SpecConnections == ConnectionsInit /\ [][ConnectionsNext]_vars

\* Podcasts are added, assigned to users and removed.
DatabaseInit ==
    /\ InitDatabase
    /\ IdleQuery /\ NotUpdating /\ IdleJobs /\ IdleConnections /\ IdleRefresh /\ IdleSelection
    /\ IdleInterleave /\ IdleCounts /\ IdleRuns /\ IdleOrch /\ IdleEpisodes
DatabaseNext == AddPodcast \/ SetUserPodcasts \/ RemovePodcast
SpecDatabase == DatabaseInit /\ [][DatabaseNext]_vars

\* One call of refresh_podcasts by api_generate.
DownloadInit ==
    /\ InitRefresh
    /\ IdleQuery /\ NotUpdating /\ IdleJobs /\ IdleConnections /\ IdleDatabase /\ IdleSelection
    /\ IdleInterleave /\ IdleCounts /\ IdleRuns /\ IdleOrch /\ IdleEpisodes
SpecDownload == DownloadInit /\ [][RefreshCall]_vars

\* One run of the two selection loops of _do_generate.
SelectionInit ==
    /\ InitSelection
    /\ IdleQuery /\ NotUpdating /\ IdleJobs /\ IdleConnections /\ IdleDatabase /\ IdleRefresh
    /\ IdleInterleave /\ IdleCounts /\ IdleRuns /\ IdleOrch /\ IdleEpisodes
SpecSelection == SelectionInit /\ [][SelectTracks]_vars

\* The scheduler is started and the status is asked for.
StatusNext == StartScheduler \/ Status
SpecStatus == SchedulerInit /\ [][StatusNext]_vars

\* The schedule is saved while other requests ask for the status.
RescheduleNext ==
    \/ StartScheduler
    \/ RescheduleBegin
    \/ RescheduleGeneration
    \/ RescheduleRefresh
    \/ Status
SpecReschedule == SchedulerInit /\ [][RescheduleNext]_vars

\* The scheduler is started on a configuration of one entry, for every time
\* of day.
RefreshTimeInit ==
    /\ \E hour \in 0..23, minute \in 0..59 :
        schedules_raw = [json |-> TRUE, entries |-> <<Entry(hour, minute)>>]
    /\ jobs = {}
    /\ sched_status = "stopped"
    /\ IdleInterleave /\ IdleCounts /\ IdleRuns /\ IdleOrch /\ IdleEpisodes /\ IdleExt
SpecRefreshTime == RefreshTimeInit /\ [][StartScheduler]_vars

====
